---- MODULE Spec2Model ----
(***************************************************************************)
(* Model of the fetch-throttler package: the request pool                  *)
(* (packages/fetch-throttler/src/RequestPool.ts) and the dispatcher that   *)
(* feeds it (ThrottledFetch: configure, getPool, invoke).                  *)
(*                                                                         *)
(* The program is single-threaded.  A step of the model is one run of      *)
(* JavaScript to completion: a call of invoke, one reaction of the promise *)
(* chain that #process attaches to an executor call, or one setTimeout     *)
(* callback.  The executor (the fetch adapter) is outside the program: it  *)
(* settles each call at a time of its choosing with a result of its        *)
(* choosing.                                                               *)
(*                                                                         *)
(* Steps interleave in any order.  When a reaction of a chain runs depends *)
(* on when the executor call settles and on the promise that shouldRetry   *)
(* may return, which suspends the chain for any length of time; callers    *)
(* may call invoke from any task or microtask.  For a pool without a       *)
(* predicate the microtask queue allows fewer orders than the model does.  *)
(*                                                                         *)
(* Strings that the dispatcher takes apart (URL paths, routing keys) are   *)
(* sequences of characters.  A URL is its host and its pathname, as the    *)
(* URL parser delivers them; a regular expression and a match function     *)
(* are the set of URLs they accept (the same answer at every call).        *)
(*                                                                         *)
(* The two earlier throttlers of the repository (packages/common and       *)
(* packages/browser) are modelled in a section of their own, in the same   *)
(* variables.                                                              *)
(***************************************************************************)
EXTENDS Integers, Sequences, FiniteSets, Bags, TLC

\* ------------------------------------------------------------------ bounds
\* Number of requests the dispatcher accepts in one behaviour.
MaxReq == 2
\* Width of the window of clock values that the model tells apart: Date.now()
\* runs from 0 to MaxTime and then stays there while every recorded time
\* moves back instead (see Tick).  At least the largest interval.
MaxTime == 2
\* Number of configure calls in one behaviour.
MaxRules == 3

\* --------------------------------------------------------- program values
\* RequestPool.ts:40, the limit of a pool without a concurrency limit.
Infinity == 1000000
\* No queue item (an empty array slot, the result of #pop on an empty queue).
None == 0
\* The value of #nextTimestamp of a pool without a timestamp ring, and of a
\* ring slot that was never written.
Undefined == -1
\* process() returned without calling setTimeout.
NoTimeout == -1
\* A pool configured without a shouldRetry predicate.
NoPredicate == {}

Max(a, b) == IF a >= b THEN a ELSE b

\* ------------------------------------------------------------------ inputs
\* A shouldRetry predicate is modelled by the set of answers it may give:
\* "true", "false", "void" (no opinion) or "throw" (it throws or rejects).
Answers == {"true", "false", "void", "throw"}

Predicates == { Answers }

\* The ThrottleConfig objects a pool is constructed from.  shouldRetry is an
\* optional property.
\* Pools without interval: every combination of the other properties.
QueueConfigs ==
    [ maxConcurrency : {0, 1, 2},
      interval       : {0},
      maxRetry       : {0, 1},
      capacity       : {-1, 1, 2} ]

\* Pools with an interval.
IntervalConfigs ==
    [ maxConcurrency : {0, 1, 2},
      interval       : {2},
      maxRetry       : {1},
      capacity       : {0} ]

\* Pools with a shouldRetry predicate.
PredicateConfigs ==
    { c @@ ("shouldRetry" :> s) :
        c \in [ maxConcurrency : {1},
                interval       : {0},
                maxRetry       : {1},
                capacity       : {0, 1} ],
        s \in Predicates }

Configs == QueueConfigs \cup IntervalConfigs \cup PredicateConfigs

\* The results an executor call can settle with: a response with ok = true,
\* a response with ok = false, a rejection (transport error).
Outcomes == {"ok", "bad", "err"}

PoolIds == {1}

\* A URL, as the URL parser delivers it: host and pathname; the pathname is
\* a string that starts with "/" and may have empty segments.
Url(h, path) == [host |-> h, pathname |-> path]

\* The URLs of the requests: https://h1/, /a, /a/, /ab, /a/b, /a// and
\* https://h2/.
Urls ==
    { Url("h1", path) : path \in { <<"/">>, <<"/", "a">>, <<"/", "a", "/">>,
                                   <<"/", "a", "b">>, <<"/", "a", "/", "b">>,
                                   <<"/", "a", "/", "/">> } }
    \cup { Url("h2", <<"/">>) }

\* The ThrottleConfig properties of every rule, and the base configuration
\* of the dispatcher.
RuleConfig == [maxConcurrency |-> 1]
BaseConfig == [maxRetry |-> 0]

\* The rules given to configure (SpecifiedThrottleConfig).  match and regex
\* stand for the function and the expression that accept the URLs listed.
CustomRules ==
    { RuleConfig @@ [match |-> {u \in Urls : u.host = "h1"}],
      RuleConfig @@ [match |-> {Url("h1", <<"/", "a">>), Url("h1", <<"/", "a", "/", "b">>)}] }

RegexRules ==
    { RuleConfig @@ [regex |-> {u \in Urls : u.host = "h1"}],
      RuleConfig @@ [regex |-> {Url("h1", <<"/", "a", "/", "b">>)}] }

\* A path rule for https://h1 + path.
PathRule(path, sub) ==
    RuleConfig @@ [scope |-> "path", url |-> <<Url("h1", path)>>, matchSubpath |-> sub]

\* Rules of every kind: two match rules, two regex rules and the domain
\* rule for h1.
MixedRules ==
    CustomRules \cup RegexRules \cup
    { RuleConfig @@ [scope |-> "domain", url |-> <<Url("h1", <<"/">>)>>] }

\* The URLs requested from a dispatcher with these rules: https://h1/a,
\* /a/b and https://h2/.
MixedUrls ==
    { Url("h1", <<"/", "a">>), Url("h1", <<"/", "a", "/", "b">>), Url("h2", <<"/">>) }

\* Rules with a scope: the domain rule for h2 and h1, and path rules for /
\* and below, /a and below, /a/, /a/b and /a//.
UrlRules ==
    { RuleConfig @@ [scope |-> "domain", domains |-> << <<"h2">> >>,
                     url |-> <<Url("h1", <<"/", "a">>)>>],
      PathRule(<<"/">>, TRUE),
      PathRule(<<"/", "a">>, TRUE),
      PathRule(<<"/", "a", "/">>, FALSE),
      PathRule(<<"/", "a", "/", "b">>, FALSE),
      PathRule(<<"/", "a", "/", "/">>, FALSE) }

\* Rules of every shape: without scope, regex and match; with an invalid
\* scope; with a scope and no URL; a regex rule that also has a match; and
\* two rules that have one of them: a path rule for two URLs and a match
\* rule.
ShapeRules ==
    { RuleConfig,
      RuleConfig @@ [scope |-> "global", url |-> <<Url("h1", <<"/">>)>>],
      RuleConfig @@ [scope |-> "domain"],
      RuleConfig @@ [scope |-> "path"],
      RuleConfig @@ [regex |-> {Url("h2", <<"/">>)},
                     match |-> {Url("h1", <<"/", "a">>)}],
      RuleConfig @@ [scope |-> "path",
                     url |-> <<Url("h1", <<"/", "a">>), Url("h1", <<"/", "a", "/", "b">>)>>],
      RuleConfig @@ [match |-> {Url("h2", <<"/">>)}] }

\* The global location of a browser.  (Where there is none, a string that
\* starts with "/" makes parseUrl fail before it parses anything.)
location == [origin |-> <<"https://", "h1">>]

\* The first argument of invoke and of stats: a URL object, a string, a
\* Request (an object with a url string), or something else.  The strings
\* are absolute URLs, the pathname "/a" and a string that is no URL.
Strings ==
    { <<"https://", "h1", "/", "a">>, <<"https://", "h2">>,
      <<"/", "a">>, <<"invalid-url">> }

Inputs ==
    { [type |-> "URL", value |-> Url("h1", <<"/", "a">>)] }
    \cup { [type |-> "string", value |-> s] : s \in Strings }
    \cup { [type |-> "object", url |-> s] :
              s \in {<<"https://", "h2", "/">>, <<"invalid-url">>} }
    \cup { [type |-> "object"], [type |-> "number"] }

\* The arguments of the stats calls: the URL object of https://h1/a/b, the
\* string of https://h2 and a number.
StatsInputs ==
    { [type |-> "URL", value |-> Url("h1", <<"/", "a", "/", "b">>)],
      [type |-> "string", value |-> <<"https://", "h2">>],
      [type |-> "number"] }

Scopes == {"global", "domain", "path"}

VARIABLES
    pools,     \* pool id -> the fields of the RequestPool
    items,     \* request id -> the QueueItem of the request and its promise
    chains,    \* the promise chains of the executor calls in progress
    timers,    \* bag of the pending setTimeout callbacks
    now,       \* Date.now()
    lastCall,  \* what the call of invoke or configure made in the latest
               \* step returned
    hist,      \* history, per pool: enqueue order and admission times
    dispatcher,\* the fields of the ThrottledFetch
    configured \* history: the configure calls that registered a pool

vars == <<pools, items, chains, timers, now, lastCall, hist, dispatcher, configured>>

\* ------------------------------------------------------------ RequestPool
fillDefaults(config) ==
    LET result == config @@
                  [maxConcurrency |-> 0, interval |-> 0, maxRetry |-> 1, capacity |-> 0]
    IN  IF "maxConcurrency" \notin DOMAIN config /\ "interval" \in DOMAIN config
        THEN [result EXCEPT !.maxConcurrency = 1]
        ELSE result

NewPool(init) ==
    LET config == fillDefaults(init)
        cap    == Max(0, config.capacity)
    IN  [ maxConcurrency |-> IF config.maxConcurrency > 0
                             THEN config.maxConcurrency ELSE Infinity,
          interval       |-> Max(0, config.interval),
          maxRetry       |-> Max(0, config.maxRetry),
          capacity       |-> cap,
          shouldRetry    |-> IF "shouldRetry" \in DOMAIN config
                             THEN config.shouldRetry ELSE NoPredicate,
          queue          |-> [i \in 1..cap |-> None],
          hasTimestamps  |-> config.maxConcurrency > 0 /\ config.interval > 0,
          timestamps     |-> IF config.maxConcurrency > 0 /\ config.interval > 0
                             THEN [i \in 1..config.maxConcurrency |-> Undefined]
                             ELSE <<>>,
          index          |-> 0,
          end            |-> 0,
          concurrency    |-> 0 ]

\* #nextTimestamp without the interval: the time of the admission
\* maxConcurrency admissions ago.
nextTimestamp_noInterval(pool) ==
    IF ~pool.hasTimestamps THEN Undefined
    ELSE IF pool.index < pool.maxConcurrency THEN 0
    ELSE pool.timestamps[(pool.index % pool.maxConcurrency) + 1]

\* get #nextTimestamp.  Arrays are 0-based in the source, sequences 1-based.
nextTimestamp(pool) ==
    IF ~pool.hasTimestamps THEN Undefined
    ELSE IF pool.index < pool.maxConcurrency THEN 0
    ELSE LET ts == pool.timestamps[(pool.index % pool.maxConcurrency) + 1]
         IN  IF ts = Undefined THEN Undefined ELSE ts + pool.interval

\* The slot of the queue array that cursor value k refers to.
slot(pool, k) ==
    (IF pool.capacity # 0 THEN k % pool.capacity ELSE k) + 1

\* #pop: the item it returns ...
popItem(pool) ==
    IF pool.index >= pool.end THEN None
    ELSE pool.queue[slot(pool, pool.index)]

\* #pop that advances the cursor and records no admission time.
popPool_noStamp(pool, t) ==
    IF pool.index >= pool.end THEN pool
    ELSE [pool EXCEPT !.index = @ + 1]

\* ... and the pool it leaves, at time t.
popPool(pool, t) ==
    IF pool.index >= pool.end THEN pool
    ELSE [pool EXCEPT
            !.timestamps = IF pool.hasTimestamps
                           THEN [@ EXCEPT ![(pool.index % pool.maxConcurrency) + 1] = t]
                           ELSE @,
            !.index = @ + 1]

push(pool, r) ==
    [pool EXCEPT
        !.queue = IF pool.capacity # 0
                  THEN [@ EXCEPT ![slot(pool, pool.end)] = r]
                  ELSE Append(@, r),
        !.end = @ + 1]

\* The concurrency test with > for >=.
saturated_gt(pool) == pool.concurrency > pool.maxConcurrency

\* RequestPool.ts:100, the concurrency test of #process.
saturated(pool) == pool.concurrency >= pool.maxConcurrency

\* The capacity test with > for >=.
isFull_gt(pool) == pool.capacity > 0 /\ pool.end - pool.index > pool.capacity

\* The capacity test counting the requests in flight with those waiting.
isFull_inFlight(pool) ==
    pool.capacity > 0 /\ pool.end - pool.index + pool.concurrency >= pool.capacity

\* RequestPool.ts:122, the capacity test of add.
isFull(pool) == pool.capacity > 0 /\ pool.end - pool.index >= pool.capacity

\* #process that returns without setTimeout when the next admission is not
\* due yet.
process_noTimer(pool, t) ==
    LET idle == [pool |-> pool, timeout |-> NoTimeout, started |-> None]
        nextTime == nextTimestamp(pool)
    IN  IF saturated(pool) THEN idle
        ELSE IF nextTime # Undefined /\ t < nextTime THEN idle
        ELSE IF popItem(pool) = None THEN idle
        ELSE [ pool    |-> [popPool(pool, t) EXCEPT !.concurrency = @ + 1],
               timeout |-> NoTimeout,
               started |-> popItem(pool) ]

\* #process at time t, up to the call of the executor: the pool it leaves,
\* the delay of the setTimeout it called (or NoTimeout) and the item it
\* handed to the executor (or None).
process(pool, t) ==
    LET idle == [pool |-> pool, timeout |-> NoTimeout, started |-> None]
        nextTime == nextTimestamp(pool)
    IN  IF saturated(pool) THEN idle
        ELSE IF nextTime # Undefined /\ t < nextTime
             THEN [idle EXCEPT !.timeout = nextTime - t]
        ELSE IF popItem(pool) = None THEN idle
        ELSE [ pool    |-> [popPool(pool, t) EXCEPT !.concurrency = @ + 1],
               timeout |-> NoTimeout,
               started |-> popItem(pool) ]

\* The callbacks that invoke passes to add are the resolve and reject
\* functions of the promise it returns: the first call settles the promise,
\* later calls have no effect on it.  onSuccess/onFailure count the calls,
\* passed is the argument of the latest call.
resolve(item, result) ==
    [item EXCEPT !.onSuccess = @ + 1,
                 !.passed = result,
                 !.promise = IF @ = "pending" THEN "fulfilled" ELSE @]

reject(item, result) ==
    [item EXCEPT !.onFailure = @ + 1,
                 !.passed = result,
                 !.promise = IF @ = "pending" THEN "rejected" ELSE @]

\* The retry decision with a default that retries every outcome.
retryDecision_retryAll(answer, result, success) ==
    IF answer = "void" THEN TRUE ELSE answer = "true"

\* The retry decision in which a non-ok response is retried whatever the
\* predicate says.
retryDecision_statusFirst(answer, result, success) ==
    IF success /\ result.kind # "ok" THEN TRUE
    ELSE IF answer = "void" THEN ~success
    ELSE answer = "true"

\* The retry decision in which a transport error is retried whatever the
\* predicate says.
retryDecision_errorFirst(answer, result, success) ==
    IF ~success THEN TRUE
    ELSE IF answer = "void" THEN result.kind # "ok"
    ELSE answer = "true"

\* The retry decision in which an ok response is never retried.
retryDecision_okFinal(answer, result, success) ==
    IF success /\ result.kind = "ok" THEN FALSE
    ELSE IF answer = "void" THEN TRUE
    ELSE answer = "true"

\* The retry decision of #handleResult_ (line 81): answer is the value of
\* shouldRetry, "void" when the predicate is absent or has no opinion.
retryDecision(answer, result, success) ==
    IF answer = "void"
    THEN (IF success THEN result.kind # "ok" ELSE TRUE)
    ELSE answer = "true"

\* RequestPool.ts:84, the test that ends the retries of an item.
exhausted(pool, item) == item.retried >= pool.maxRetry

\* #handleResult_ handing the response of an exhausted item to onSuccess.
handleResult_resolveExhausted(pool, item, r, result, success, answer) ==
    LET shouldRetry == retryDecision(answer, result, success)
    IN  IF (~shouldRetry \/ exhausted(pool, item)) /\ success
        THEN [pool |-> pool, item |-> resolve(item, result)]
        ELSE IF (~shouldRetry /\ ~success) \/ (shouldRetry /\ exhausted(pool, item))
        THEN [pool |-> pool, item |-> reject(item, result)]
        ELSE [pool |-> push(pool, r), item |-> [item EXCEPT !.retried = @ + 1]]

\* #handleResult_ for item r: the pool and the item it leaves.
handleResult_(pool, item, r, result, success, answer) ==
    LET shouldRetry == retryDecision(answer, result, success)
    IN  IF ~shouldRetry /\ success
        THEN [pool |-> pool, item |-> resolve(item, result)]
        ELSE IF (~shouldRetry /\ ~success) \/ (shouldRetry /\ exhausted(pool, item))
        THEN [pool |-> pool, item |-> reject(item, result)]
        ELSE [pool |-> push(pool, r), item |-> [item EXCEPT !.retried = @ + 1]]

\* The answers #handleResult can get from this.#shouldRetry?.(result).
answers(pool) ==
    IF pool.shouldRetry = NoPredicate THEN {"void"} ELSE pool.shouldRetry

\* ---------------------------------------------------------- ThrottledFetch
\* String operations on sequences of characters.
endsWith(s, ch) == Len(s) > 0 /\ s[Len(s)] = ch

\* slice(0, -1)
dropLast(s) == SubSeq(s, 1, Len(s) - 1)

\* split("/")
RECURSIVE split(_)
split(s) ==
    IF \A i \in 1..Len(s) : s[i] # "/" THEN <<s>>
    ELSE LET i == CHOOSE i \in 1..Len(s) :
                      s[i] = "/" /\ \A j \in 1..(i - 1) : s[j] # "/"
         IN  <<SubSeq(s, 1, i - 1)>> \o split(SubSeq(s, i + 1, Len(s)))

\* url.origin and url.host as strings.
origin(url) == <<"https://", url.host>>
host(url) == <<url.host>>

\* ThrottledFetch.getKey; "" for the global scope.
getKey(url, scope) ==
    CASE scope = "global" -> <<>>
      [] scope = "domain" -> host(url)
      [] scope = "path"   -> LET key == origin(url) \o url.pathname
                             IN  IF endsWith(key, "/") THEN dropLast(key) ELSE key

\* keys[i] of getSubpathKeys, i counted from 0.
RECURSIVE subpathKey(_, _, _)
subpathKey(url, parts, i) ==
    IF i = 0 THEN origin(url) \o <<"/">>
    ELSE subpathKey(url, parts, i - 1) \o parts[i] \o <<"/">>

\* ThrottledFetch.getSubpathKeys: the folder keys of the ancestors of the
\* path of url, deepest first.
getSubpathKeys(url) ==
    LET rest     == Tail(url.pathname)
        pathname == IF endsWith(rest, "/") THEN dropLast(rest) ELSE rest
        parts    == split(pathname)
        n        == Len(parts)
    IN  [k \in 1..n |-> subpathKey(url, parts, n - k)]

\* Map.get, None for undefined.
get(map, key) == IF key \in DOMAIN map THEN map[key] ELSE None

\* The loops of getPool taking the first entry that accepts url.
lastMatch_first(list, url) ==
    LET hits == {i \in 1..Len(list) : url \in list[i][1]}
    IN  IF hits = {} THEN None
        ELSE list[CHOOSE i \in hits : \A j \in hits : j >= i][2]

\* The loops of getPool over _customPools and _regexPools: the pool of the
\* last entry of list that accepts url, None when no entry does.  An entry
\* is the pair of the matcher and the pool.
lastMatch(list, url) ==
    LET hits == {i \in 1..Len(list) : url \in list[i][1]}
    IN  IF hits = {} THEN None
        ELSE list[CHOOSE i \in hits : \A j \in hits : j <= i][2]

\* ThrottledFetch.ts:295-303, the lookup of getPool in _urlPools.
urlPool(d, url) ==
    LET exact == get(d.urlPools, getKey(url, "path"))
        keys  == getSubpathKeys(url)
        hits  == {k \in 1..Len(keys) : keys[k] \in DOMAIN d.urlPools}
        pool  == IF d.hasSubpathConfigs /\ exact = None /\ hits # {}
                 THEN d.urlPools[keys[CHOOSE k \in hits : \A j \in hits : k <= j]]
                 ELSE exact
    IN  IF pool # None THEN pool ELSE get(d.urlPools, getKey(url, "domain"))

\* getPool without the lookup in _defaultPools.
getPool_noCache(d, url) ==
    IF lastMatch(d.customPools, url) # None THEN lastMatch(d.customPools, url)
    ELSE IF lastMatch(d.regexPools, url) # None THEN lastMatch(d.regexPools, url)
    ELSE urlPool(d, url)

\* getPool looking into _regexPools before _customPools.
getPool_regexFirst(d, url) ==
    IF lastMatch(d.regexPools, url) # None THEN lastMatch(d.regexPools, url)
    ELSE IF lastMatch(d.customPools, url) # None THEN lastMatch(d.customPools, url)
    ELSE IF urlPool(d, url) # None THEN urlPool(d, url)
    ELSE get(d.defaultPools, getKey(url, d.scope))

\* ThrottledFetch.getPool without the creation of a default pool: the pool
\* for url, None when there is none yet.
getPool(d, url) ==
    IF lastMatch(d.customPools, url) # None THEN lastMatch(d.customPools, url)
    ELSE IF lastMatch(d.regexPools, url) # None THEN lastMatch(d.regexPools, url)
    ELSE IF urlPool(d, url) # None THEN urlPool(d, url)
    ELSE get(d.defaultPools, getKey(url, d.scope))

\* Array.from(new Set(s)): s without the repetitions of earlier elements.
RECURSIVE unique(_)
unique(s) ==
    IF s = <<>> THEN <<>>
    ELSE LET r == unique(dropLast(s))
         IN  IF \E i \in 1..Len(r) : r[i] = s[Len(s)] THEN r
             ELSE Append(r, s[Len(s)])

\* ThrottledFetch.ts:405-407 without the test for a registered key.
setKey_overwrite(map, key, pool) ==
    [urlPools |-> (key :> pool) @@ map, error |-> "none"]

\* ThrottledFetch.ts:405-407, one round of the loop over the keys: a key
\* that is registered already throws, another one is set.
setKey(map, key, pool) ==
    IF key \in DOMAIN map THEN [urlPools |-> map, error |-> "Error"]
    ELSE [urlPools |-> (key :> pool) @@ map, error |-> "none"]

\* ThrottledFetch.ts:404-408: the keys are registered one by one, up to the
\* first that is registered already.
RECURSIVE setKeys(_, _, _)
setKeys(map, keys, pool) ==
    IF keys = <<>> THEN [urlPools |-> map, error |-> "none"]
    ELSE LET set == setKey(map, Head(keys), pool)
         IN  IF set.error # "none" THEN set
             ELSE setKeys(set.urlPools, Tail(keys), pool)

\* The routing keys of a rule taken from its first URL only.
ruleKeys_firstOnly(config) ==
    LET urls     == IF "url" \in DOMAIN config THEN config.url ELSE <<>>
        first(s) == IF s = <<>> THEN <<>> ELSE <<s[1]>>
    IN  IF config.scope = "domain"
        THEN LET domains == IF "domains" \in DOMAIN config THEN config.domains ELSE <<>>
             IN  first(domains \o [i \in 1..Len(urls) |-> host(urls[i])])
        ELSE LET keys == first([i \in 1..Len(urls) |-> getKey(urls[i], "path")])
             IN  IF "matchSubpath" \in DOMAIN config /\ config.matchSubpath = TRUE
                 THEN keys \o [i \in 1..Len(keys) |-> keys[i] \o <<"/">>]
                 ELSE keys

\* The routing keys of a rule with a scope (ThrottledFetch.ts:376-402), in
\* the order in which they are registered.
ruleKeys(config) ==
    LET urls == IF "url" \in DOMAIN config THEN config.url ELSE <<>>
    IN  IF config.scope = "domain"
        THEN LET domains == IF "domains" \in DOMAIN config THEN config.domains ELSE <<>>
             IN  unique(domains \o [i \in 1..Len(urls) |-> host(urls[i])])
        ELSE LET keys == unique([i \in 1..Len(urls) |-> getKey(urls[i], "path")])
             IN  IF "matchSubpath" \in DOMAIN config /\ config.matchSubpath = TRUE
                 THEN keys \o [i \in 1..Len(keys) |-> keys[i] \o <<"/">>]
                 ELSE keys

\* ThrottledFetch.configure with `pool` the new RequestPool: the dispatcher
\* it leaves and the error it throws ("none", "TypeError" or "Error").
configure(d, config, pool) ==
    IF "scope" \in DOMAIN config
    THEN IF config.scope \notin {"domain", "path"}
         THEN [dispatcher |-> d, error |-> "TypeError"]
         ELSE IF ruleKeys(config) = <<>>
         THEN [dispatcher |-> d, error |-> "TypeError"]
         ELSE LET sub == /\ config.scope = "path"
                         /\ "matchSubpath" \in DOMAIN config
                         /\ config.matchSubpath = TRUE
                  set == setKeys(d.urlPools, ruleKeys(config), pool)
              IN  [ dispatcher |-> [d EXCEPT !.hasSubpathConfigs = @ \/ sub,
                                             !.urlPools = set.urlPools],
                    error |-> set.error ]
    ELSE IF "regex" \in DOMAIN config
    THEN [ dispatcher |-> [d EXCEPT !.regexPools = Append(@, <<config.regex, pool>>)],
           error |-> "none" ]
    ELSE IF "match" \in DOMAIN config
    THEN [ dispatcher |-> [d EXCEPT !.customPools = Append(@, <<config.match, pool>>)],
           error |-> "none" ]
    ELSE [dispatcher |-> d, error |-> "TypeError"]

\* new URL(s): the URL of an absolute URL string, in a sequence; the empty
\* sequence when the constructor throws.  The pathname of a URL string
\* without a path is "/".
newURL(s) ==
    IF Len(s) >= 2 /\ s[1] = "https://" /\ s[2] # "/" /\ (Len(s) >= 3 => s[3] = "/")
    THEN <<Url(s[2], IF Len(s) = 2 THEN <<"/">> ELSE SubSeq(s, 3, Len(s)))>>
    ELSE <<>>

\* parseUrl taking every string for the URL of its host.
parseUrl_lenient(input) ==
    IF input.type = "URL" THEN [error |-> "none", url |-> input.value]
    ELSE IF input.type = "string" THEN [error |-> "none", url |-> Url(input.value[1], <<"/">>)]
    ELSE IF input.type = "object" /\ "url" \in DOMAIN input
    THEN [error |-> "none", url |-> Url(input.url[1], <<"/">>)]
    ELSE [error |-> "TypeError"]

\* ThrottledFetch.parseUrl for args[0] = input: the URL it returns, or the
\* error it throws.
parseUrl(input) ==
    IF input.type = "URL" THEN [error |-> "none", url |-> input.value]
    ELSE IF input.type = "string" \/ (input.type = "object" /\ "url" \in DOMAIN input)
    THEN LET url == IF input.type = "string" THEN input.value ELSE input.url
             abs == IF Len(url) > 0 /\ url[1] = "/" THEN location.origin \o url ELSE url
         IN  IF newURL(abs) = <<>> THEN [error |-> "TypeError"]
             ELSE [error |-> "none", url |-> newURL(abs)[1]]
    ELSE [error |-> "TypeError"]

\* The counts of a pool that stats reads: the requests that have had a
\* terminal callback, the requests in flight, the requests in the queue.
completed(p) ==
    Cardinality({r \in 1..Len(items) :
                    items[r].pool = p /\ items[r].onSuccess + items[r].onFailure > 0})

active(pool) == pool.concurrency

waiting(pool) == pool.end - pool.index

\* The ThrottledFetch that the constructor leaves for a base configuration
\* with the given scope.
NewDispatcher(scope, config) ==
    [ scope |-> scope, config |-> fillDefaults(config),
      defaultPools |-> <<>>, urlPools |-> <<>>,
      regexPools |-> <<>>, customPools |-> <<>>,
      hasSubpathConfigs |-> FALSE ]

\* ------------------------------------------------------------------- state
\* No result yet (an executor call that has not settled, a promise that is
\* pending).
NoResult == [kind |-> "none", attempt |-> 0]

\* The result of attempt k of a request: kind is an element of Outcomes, or
\* "thrown" for the error that a failing shouldRetry leaves in the chain.
Result(kind, k) == [kind |-> kind, attempt |-> k]

\* The QueueItem that add creates for a request to pool p, with the promise
\* that invoke returns and the number of executor calls made for the request.
NewItem(p) ==
    [ pool |-> p, retried |-> 0,
      onSuccess |-> 0, onFailure |-> 0, passed |-> NoResult,
      promise |-> "pending", attempts |-> 0 ]

\* The latest step was not a call of invoke or configure.
NoCall ==
    [ error |-> "none", threw |-> FALSE, promise |-> "none",
      pool |-> 0, waiting |-> 0, active |-> 0 ]

\* fifo: the items enqueued and not yet admitted, oldest first; inOrder:
\* every admission so far took the oldest of them; times: the times of the
\* latest maxConcurrency admissions.
NoHist == [fifo |-> <<>>, inOrder |-> TRUE, times |-> <<>>]

\* The last n elements of sequence s.
LastN(s, n) ==
    IF Len(s) <= n THEN s ELSE SubSeq(s, Len(s) - n + 1, Len(s))

\* A dispatcher with the base configuration c, the global scope and no
\* rules, whose default pool, pool 1, exists.
OnePool(c) ==
    [NewDispatcher("global", c) EXCEPT !.defaultPools = (<<>> :> 1)]

Init ==
    /\ \E c \in Configs :
          /\ pools = [p \in PoolIds |-> NewPool(c)]
          /\ dispatcher = OnePool(c)
    /\ items = <<>>
    /\ chains = {}
    /\ timers = EmptyBag
    /\ now = 0
    /\ lastCall = NoCall
    /\ hist = [p \in PoolIds |-> NoHist]
    /\ configured = <<>>

\* A chain whose reactions act on the pool that the dispatcher made first
\* instead of the pool that started the executor call.
NewChain_firstPool(p, r, k) ==
    [ pool |-> 1, item |-> r, attempt |-> k,
      stage |-> "running", rejected |-> FALSE, value |-> NoResult ]

\* The promise chain of RequestPool.ts:114-118 for attempt k of item r; the
\* executor call has been made and is pending.
NewChain(p, r, k) ==
    [ pool |-> p, item |-> r, attempt |-> k,
      stage |-> "running", rejected |-> FALSE, value |-> NoResult ]

\* #process with an in-flight counter that all pools share.
ProcessIn_sharedCounter(pls, hst, p, pool, its, chs, tms, pushed) ==
    LET res  == process(pool, now)
        r    == res.started
        fifo == hst[p].fifo \o pushed
    IN  /\ pools' = [q \in DOMAIN pls |->
                        IF q = p THEN res.pool
                        ELSE [pls[q] EXCEPT !.concurrency = res.pool.concurrency]]
        /\ timers' = IF res.timeout = NoTimeout THEN tms
                     ELSE tms (+) SetToBag({[pool |-> p, due |-> now + res.timeout]})
        /\ IF r = None
           THEN /\ items' = its
                /\ chains' = chs
                /\ hist' = [hst EXCEPT ![p].fifo = fifo]
           ELSE /\ items' = [its EXCEPT ![r].attempts = @ + 1]
                /\ chains' = chs \cup {NewChain(p, r, its[r].attempts + 1)}
                /\ hist' = [hst EXCEPT ![p] =
                              [ fifo    |-> Tail(fifo),
                                inOrder |-> @.inOrder /\ r = Head(fifo),
                                times   |-> IF pool.interval > 0
                                               /\ pool.maxConcurrency # Infinity
                                            THEN LastN(Append(@.times, now),
                                                       pool.maxConcurrency)
                                            ELSE <<>> ]]

\* The end of every run of pool code: pool p, left as `pool` with items
\* `its`, chains `chs` and timers `tms` after pushing the items of `pushed`,
\* calls #process.  pls and hst are the pools and their histories at the
\* call.
ProcessIn(pls, hst, p, pool, its, chs, tms, pushed) ==
    LET res  == process(pool, now)
        r    == res.started
        fifo == hst[p].fifo \o pushed
    IN  /\ pools' = [pls EXCEPT ![p] = res.pool]
        /\ timers' = IF res.timeout = NoTimeout THEN tms
                     ELSE tms (+) SetToBag({[pool |-> p, due |-> now + res.timeout]})
        /\ IF r = None
           THEN /\ items' = its
                /\ chains' = chs
                /\ hist' = [hst EXCEPT ![p].fifo = fifo]
           ELSE /\ items' = [its EXCEPT ![r].attempts = @ + 1]
                /\ chains' = chs \cup {NewChain(p, r, its[r].attempts + 1)}
                /\ hist' = [hst EXCEPT ![p] =
                              [ fifo    |-> Tail(fifo),
                                inOrder |-> @.inOrder /\ r = Head(fifo),
                                times   |-> IF pool.interval > 0
                                               /\ pool.maxConcurrency # Infinity
                                            THEN LastN(Append(@.times, now),
                                                       pool.maxConcurrency)
                                            ELSE <<>> ]]

\* The same for a pool that exists before the step.
Process(p, pool, its, chs, tms, pushed) ==
    ProcessIn(pools, hist, p, pool, its, chs, tms, pushed)

\* invoke calling add outside a promise constructor: the exception of add
\* leaves invoke, and no promise is returned.
newPromise_rethrow(addThrew) ==
    [ threw |-> addThrew, promise |-> IF addThrew THEN "none" ELSE "pending" ]

\* new Promise(executor), ThrottledFetch.ts:346: an exception thrown by the
\* executor function rejects the promise and is not thrown to the caller.
\* Given whether add threw: whether invoke throws, and the promise returned.
newPromise(addThrew) ==
    [ threw |-> FALSE, promise |-> IF addThrew THEN "rejected" ELSE "pending" ]

\* invoke with an add that makes an admission attempt also when it fails.
Invoke_processAnyway(p) ==
    LET pool == pools[p]
        r    == Len(items) + 1
    IN  /\ lastCall' = [ error   |-> IF isFull(pool) THEN "full" ELSE "none",
                         threw   |-> newPromise(isFull(pool)).threw,
                         promise |-> newPromise(isFull(pool)).promise,
                         pool    |-> p,
                         waiting |-> pool.end - pool.index,
                         active  |-> pool.concurrency ]
        /\ IF isFull(pool)
           THEN /\ Process(p, pool, items, chains, timers, <<>>)
                /\ UNCHANGED now
           ELSE /\ Len(items) < MaxReq
                /\ Process(p, push(pool, r), Append(items, NewItem(p)), chains, timers, <<r>>)
                /\ UNCHANGED now
        /\ UNCHANGED <<dispatcher, configured>>

\* ThrottledFetch.invoke for a request that getPool routes to pool p, with
\* RequestPool.add.  lastCall records the error that add threw ("full": the
\* pool is full), whether invoke threw, the state of the promise it returned,
\* and the queue length and in-flight counter of the pool before the call.
Invoke(p) ==
    LET pool == pools[p]
        r    == Len(items) + 1
    IN  /\ lastCall' = [ error   |-> IF isFull(pool) THEN "full" ELSE "none",
                         threw   |-> newPromise(isFull(pool)).threw,
                         promise |-> newPromise(isFull(pool)).promise,
                         pool    |-> p,
                         waiting |-> pool.end - pool.index,
                         active  |-> pool.concurrency ]
        /\ IF isFull(pool)
           THEN UNCHANGED <<pools, items, chains, timers, now, hist>>
           ELSE /\ Len(items) < MaxReq
                /\ Process(p, push(pool, r), Append(items, NewItem(p)), chains, timers, <<r>>)
                /\ UNCHANGED now
        /\ UNCHANGED <<dispatcher, configured>>

\* A chain that ends with .then(() => this.#process()) in place of
\* .finally: the call of #process is skipped when .catch has rejected.
nextStage_skipProcess(stage, rejected) ==
    CASE stage = "finally1" -> IF rejected THEN "catch" ELSE "then"
      [] stage = "then"     -> IF rejected THEN "catch" ELSE "finally2"
      [] stage = "catch"    -> IF rejected THEN "done" ELSE "finally2"

\* The reaction of chain c that runs after `stage`, given whether the promise
\* before it is rejected: .then is skipped when it is, .catch when it is
\* not, and a skipped reaction runs no code.
nextStage(stage, rejected) ==
    CASE stage = "finally1" -> IF rejected THEN "catch" ELSE "then"
      [] stage = "then"     -> IF rejected THEN "catch" ELSE "finally2"
      [] stage = "catch"    -> "finally2"

\* A chain without .finally(() => --this.#concurrency) in front of the
\* classification: settling leaves the counter as it is.
Settle_noDecrement(c, kind) ==
    /\ c.stage = "running"
    /\ chains' = (chains \ {c}) \cup
                 {[c EXCEPT !.stage = nextStage("finally1", kind = "err"),
                            !.rejected = (kind = "err"),
                            !.value = Result(kind, c.attempt)]}
    /\ lastCall' = NoCall
    /\ UNCHANGED <<pools, items, timers, now, hist, dispatcher, configured>>

\* The executor call of chain c has settled with outcome kind, and the first
\* reaction of the chain runs: .finally(() => --this.#concurrency)
Settle(c, kind) ==
    /\ c.stage = "running"
    /\ pools' = [pools EXCEPT ![c.pool].concurrency = @ - 1]
    /\ chains' = (chains \ {c}) \cup
                 {[c EXCEPT !.stage = nextStage("finally1", kind = "err"),
                            !.rejected = (kind = "err"),
                            !.value = Result(kind, c.attempt)]}
    /\ lastCall' = NoCall
    /\ UNCHANGED <<items, timers, now, hist, dispatcher, configured>>

\* One reaction of chain c that calls #handleResult(item, c.value, success)
\* and gets `answer` from shouldRetry.
HandleResult(c, success, answer) ==
    /\ answer \in answers(pools[c.pool])
    /\ IF answer = "throw"
       THEN /\ chains' = (chains \ {c}) \cup
                         {[c EXCEPT !.stage = nextStage(c.stage, TRUE),
                                    !.rejected = TRUE,
                                    !.value = Result("thrown", c.attempt)]}
            /\ UNCHANGED <<pools, items, hist>>
       ELSE LET res == handleResult_(pools[c.pool], items[c.item], c.item,
                                     c.value, success, answer)
            IN  /\ chains' = (chains \ {c}) \cup
                             {[c EXCEPT !.stage = nextStage(c.stage, FALSE),
                                        !.rejected = FALSE,
                                        !.value = NoResult]}
                /\ pools' = [pools EXCEPT ![c.pool] = res.pool]
                /\ items' = [items EXCEPT ![c.item] = res.item]
                /\ hist' = IF res.pool.end > pools[c.pool].end
                           THEN [hist EXCEPT ![c.pool].fifo = Append(@, c.item)]
                           ELSE hist
    /\ lastCall' = NoCall
    /\ UNCHANGED <<timers, now, dispatcher, configured>>

\* .then(resp => this.#handleResult(item, resp, true))
Then(c, answer) ==
    /\ c.stage = "then"
    /\ HandleResult(c, TRUE, answer)

\* .catch(error => this.#handleResult(item, error, false))
Catch(c, answer) ==
    /\ c.stage = "catch"
    /\ HandleResult(c, FALSE, answer)

\* .finally(() => this.#process())
Finally2(c) ==
    /\ c.stage = "finally2"
    /\ Process(c.pool, pools[c.pool], items, chains \ {c}, timers, <<>>)
    /\ lastCall' = NoCall
    /\ UNCHANGED <<now, dispatcher, configured>>

\* setTimeout(() => this.#process(), delay) fires, not before its delay.
Timeout(tm) ==
    /\ tm.due <= now
    /\ Process(tm.pool, pools[tm.pool], items, chains,
               timers (-) SetToBag({tm}), <<>>)
    /\ lastCall' = NoCall
    /\ UNCHANGED <<now, dispatcher, configured>>

\* A recorded time, one millisecond further in the past.  The program only
\* compares Date.now() with a recorded time plus the interval, and a time
\* MaxTime or more in the past is at least an interval in the past.
Earlier(t) == IF t = Undefined THEN Undefined ELSE Max(0, t - 1)

\* One millisecond passes.  Only pools with a timestamp ring read the clock.
Tick ==
    /\ \E p \in PoolIds : pools[p].hasTimestamps
    /\ IF now < MaxTime
       THEN /\ now' = now + 1
            /\ UNCHANGED <<pools, timers, hist>>
       ELSE /\ now' = now
            /\ pools' = [p \in PoolIds |->
                            [pools[p] EXCEPT !.timestamps =
                                [i \in DOMAIN @ |-> Earlier(@[i])]]]
            /\ timers' = BagOfAll(LAMBDA tm : [tm EXCEPT !.due = Earlier(@)], timers)
            /\ hist' = [p \in PoolIds |->
                            [hist[p] EXCEPT !.times =
                                [i \in DOMAIN @ |-> Earlier(@[i])]]]
    /\ lastCall' = NoCall
    /\ UNCHANGED <<items, chains, dispatcher, configured>>

Next ==
    \/ \E p \in PoolIds : Invoke(p)
    \/ \E c \in chains, kind \in Outcomes : Settle(c, kind)
    \/ \E c \in chains, a \in Answers : Then(c, a)
    \/ \E c \in chains, a \in Answers : Catch(c, a)
    \/ \E c \in chains : Finally2(c)
    \/ \E tm \in BagToSet(timers) : Timeout(tm)
    \/ Tick

Spec == Init /\ [][Next]_vars

\* A specification for progress: pools whose shouldRetry never fails (it may
\* return a promise); every executor call settles, every reaction runs,
\* every timer fires and time passes.  Calls of invoke are up to the caller.
LiveConfigs ==
    { c @@ ("shouldRetry" :> {"true", "false", "void"}) :
        c \in [ maxConcurrency : {1, 2},
                interval       : {0},
                maxRetry       : {1},
                capacity       : {0, 1} ]
              \cup
              [ maxConcurrency : {1},
                interval       : {2},
                maxRetry       : {0, 1},
                capacity       : {0} ] }

LiveInit ==
    /\ \E c \in LiveConfigs :
          /\ pools = [p \in PoolIds |-> NewPool(c)]
          /\ dispatcher = OnePool(c)
    /\ items = <<>>
    /\ chains = {}
    /\ timers = EmptyBag
    /\ now = 0
    /\ lastCall = NoCall
    /\ hist = [p \in PoolIds |-> NoHist]
    /\ configured = <<>>

LiveSpec ==
    /\ LiveInit
    /\ [][Next]_vars
    /\ WF_vars(\E c \in chains, kind \in Outcomes : Settle(c, kind))
    /\ WF_vars(\E c \in chains, a \in Answers : Then(c, a))
    /\ WF_vars(\E c \in chains, a \in Answers : Catch(c, a))
    /\ WF_vars(\E c \in chains : Finally2(c))
    /\ WF_vars(\E tm \in BagToSet(timers) : Timeout(tm))
    /\ WF_vars(Tick)

\* A specification for the classification of outcomes: pools whose
\* shouldRetry gives the same answer for every outcome (() => true,
\* () => false, () => undefined), and pools without a predicate.
ConstantPredicates == { {"true"}, {"false"}, {"void"} }

PolicyConfigs ==
    { c @@ ("shouldRetry" :> s) :
        c \in [ maxConcurrency : {1},
                interval       : {0},
                maxRetry       : {0, 1},
                capacity       : {0} ]
              \cup
              [ maxConcurrency : {1},
                interval       : {2},
                maxRetry       : {1},
                capacity       : {0} ],
        s \in ConstantPredicates }
    \cup
    [ maxConcurrency : {1},
      interval       : {0},
      maxRetry       : {0, 1},
      capacity       : {0, 1} ]

PolicyInit ==
    /\ \E c \in PolicyConfigs :
          /\ pools = [p \in PoolIds |-> NewPool(c)]
          /\ dispatcher = OnePool(c)
    /\ items = <<>>
    /\ chains = {}
    /\ timers = EmptyBag
    /\ now = 0
    /\ lastCall = NoCall
    /\ hist = [p \in PoolIds |-> NoHist]
    /\ configured = <<>>

PolicySpec == PolicyInit /\ [][Next]_vars

\* -------------------------------------------------------------- dispatcher
\* Rule properties completed with the base configuration of the dispatcher.
ruleConf_inherit(config) ==
    IF "scope" \in DOMAIN config
    THEN [k \in DOMAIN config \ {"url", "scope"} |-> config[k]] @@ dispatcher.config
    ELSE config @@ dispatcher.config

\* The ThrottleConfig that configure passes to the constructor of the pool:
\* a rule with a scope without its url and scope, another rule as it is.
ruleConf(config) ==
    IF "scope" \in DOMAIN config
    THEN [k \in DOMAIN config \ {"url", "scope"} |-> config[k]]
    ELSE config

\* ThrottledFetch.configure.  The pool it constructs is kept when a map or a
\* list of the dispatcher refers to it after the call, which can be the case
\* for a call that throws.
Configure(config) ==
    LET n   == Len(pools) + 1
        res == configure(dispatcher, config, n)
        registered ==
            \/ res.dispatcher.urlPools # dispatcher.urlPools
            \/ res.dispatcher.regexPools # dispatcher.regexPools
            \/ res.dispatcher.customPools # dispatcher.customPools
    IN  /\ Len(configured) < MaxRules
        /\ dispatcher' = res.dispatcher
        /\ lastCall' = [ error |-> res.error, threw |-> res.error # "none",
                         promise |-> "none",
                         pool |-> IF registered THEN n ELSE None,
                         waiting |-> 0, active |-> 0 ]
        /\ IF registered
           THEN /\ pools' = Append(pools, NewPool(ruleConf(config)))
                /\ hist' = Append(hist, NoHist)
                /\ configured' = Append(configured,
                                        [config |-> config, pool |-> n, error |-> res.error])
           ELSE UNCHANGED <<pools, hist, configured>>
        /\ UNCHANGED <<items, chains, timers, now>>

\* ThrottledFetch.invoke for a request to url: getPool with create = true,
\* then RequestPool.add.
InvokeUrl(url) ==
    LET found  == getPool(dispatcher, url)
        create == found = None
        p      == IF create THEN Len(pools) + 1 ELSE found
        pls    == IF create THEN Append(pools, NewPool(dispatcher.config)) ELSE pools
        hst    == IF create THEN Append(hist, NoHist) ELSE hist
        pool   == pls[p]
        r      == Len(items) + 1
    IN  /\ dispatcher' =
              IF create
              THEN [dispatcher EXCEPT
                      !.defaultPools = (getKey(url, dispatcher.scope) :> p) @@ @]
              ELSE dispatcher
        /\ lastCall' = [ error   |-> IF isFull(pool) THEN "full" ELSE "none",
                         threw   |-> newPromise(isFull(pool)).threw,
                         promise |-> newPromise(isFull(pool)).promise,
                         pool    |-> p,
                         waiting |-> pool.end - pool.index,
                         active  |-> pool.concurrency ]
        /\ IF isFull(pool)
           THEN /\ pools' = pls
                /\ hist' = hst
                /\ UNCHANGED <<items, chains, timers>>
           ELSE /\ Len(items) < MaxReq
                /\ ProcessIn(pls, hst, p, push(pool, r), Append(items, NewItem(p)),
                             chains, timers, <<r>>)
        /\ UNCHANGED <<now, configured>>

\* A specification of the dispatcher: configure calls and requests, for a
\* dispatcher of any default scope; no executor call settles.
RouterInit ==
    /\ pools = <<>>
    /\ items = <<>>
    /\ chains = {}
    /\ timers = EmptyBag
    /\ now = 0
    /\ lastCall = NoCall
    /\ hist = <<>>
    /\ dispatcher \in {NewDispatcher(scope, BaseConfig) : scope \in Scopes}
    /\ configured = <<>>

RouterNext ==
    \/ \E config \in MixedRules : Configure(config)
    \/ \E url \in MixedUrls : InvokeUrl(url)

RouterSpec == RouterInit /\ [][RouterNext]_vars

\* A specification of the rules with a scope, for a dispatcher of the
\* global scope.
PathInit ==
    /\ pools = <<>>
    /\ items = <<>>
    /\ chains = {}
    /\ timers = EmptyBag
    /\ now = 0
    /\ lastCall = NoCall
    /\ hist = <<>>
    /\ dispatcher = NewDispatcher("global", BaseConfig)
    /\ configured = <<>>

PathNext ==
    \/ \E config \in UrlRules : Configure(config)
    \/ \E url \in Urls : InvokeUrl(url)

PathSpec == PathInit /\ [][PathNext]_vars

\* A specification of configure calls that throw: rules with a scope whose
\* keys overlap (a path rule for /a/b, one for /a and /a/b, one for /a and
\* below, the domain rule for h1), a rule with an invalid scope and one
\* without scope, regex and match; requests to https://h1/a, /a/b and
\* https://h2/.  No executor call settles.
AtomicRules ==
    { PathRule(<<"/", "a", "/", "b">>, FALSE),
      RuleConfig @@ [scope |-> "path",
                     url |-> <<Url("h1", <<"/", "a">>), Url("h1", <<"/", "a", "/", "b">>)>>],
      PathRule(<<"/", "a">>, TRUE),
      RuleConfig @@ [scope |-> "domain", url |-> <<Url("h1", <<"/">>)>>],
      RuleConfig @@ [scope |-> "global", url |-> <<Url("h1", <<"/">>)>>],
      RuleConfig }

AtomicNext ==
    \/ \E config \in AtomicRules : Configure(config)
    \/ \E url \in MixedUrls : InvokeUrl(url)

AtomicSpec == PathInit /\ [][AtomicNext]_vars

\* A call of `method` that threw `error` and did nothing else.
Threw(method, error) ==
    [NoCall EXCEPT !.error = error, !.threw = TRUE] @@ [method |-> method]

\* ThrottledFetch.invoke(input): parseUrl, then getPool and add.
InvokeArgs(input) ==
    IF parseUrl(input).error # "none"
    THEN /\ lastCall' = Threw("invoke", parseUrl(input).error)
         /\ UNCHANGED <<pools, items, chains, timers, now, hist, dispatcher, configured>>
    ELSE InvokeUrl(parseUrl(input).url)

\* stats passing create = true to getPool.
statsCreate_true == TRUE

\* ThrottledFetch.ts:356, the value of `create` in the call of getPool by
\* stats (the default of the parameter).
statsCreate == FALSE

\* stats reporting the queue length as active and the in-flight counter as
\* waiting.
stats_swapped(pls, p) ==
    IF p = None THEN [completed |-> 0, active |-> 0, waiting |-> 0]
    ELSE [ completed |-> completed(p),
           active    |-> waiting(pls[p]),
           waiting   |-> active(pls[p]) ]

\* The object that stats returns for the pool p that getPool returned, pls
\* being the pools after that call.
stats(pls, p) ==
    IF p = None THEN [completed |-> 0, active |-> 0, waiting |-> 0]
    ELSE [ completed |-> completed(p),
           active    |-> active(pls[p]),
           waiting   |-> waiting(pls[p]) ]

\* ThrottledFetch.stats(input): parseUrl, then getPool, then the counts of
\* the pool.  lastCall records the pool and the counts returned.
Stats(input) ==
    IF parseUrl(input).error # "none"
    THEN /\ lastCall' = Threw("stats", parseUrl(input).error)
         /\ UNCHANGED <<pools, items, chains, timers, now, hist, dispatcher, configured>>
    ELSE LET url    == parseUrl(input).url
             found  == getPool(dispatcher, url)
             create == statsCreate /\ found = None
             p      == IF create THEN Len(pools) + 1 ELSE found
             pls    == IF create THEN Append(pools, NewPool(dispatcher.config)) ELSE pools
         IN  /\ dispatcher' =
                   IF create
                   THEN [dispatcher EXCEPT
                           !.defaultPools = (getKey(url, dispatcher.scope) :> p) @@ @]
                   ELSE dispatcher
             /\ pools' = pls
             /\ hist' = IF create THEN Append(hist, NoHist) ELSE hist
             /\ lastCall' = [NoCall EXCEPT !.pool = p] @@ [stats |-> stats(pls, p)]
             /\ UNCHANGED <<items, chains, timers, now, configured>>

\* A specification of the registry: configure calls with rules of every
\* shape, requests with arguments of every type and stats calls, for a
\* dispatcher whose default pools are per path; no executor call settles.
RegistryInit ==
    /\ pools = <<>>
    /\ items = <<>>
    /\ chains = {}
    /\ timers = EmptyBag
    /\ now = 0
    /\ lastCall = NoCall
    /\ hist = <<>>
    /\ dispatcher = NewDispatcher("path", BaseConfig)
    /\ configured = <<>>

RegistryNext ==
    \/ \E config \in ShapeRules : Configure(config)
    \/ \E input \in Inputs : InvokeArgs(input)
    \/ \E input \in StatsInputs : Stats(input)

RegistrySpec == RegistryInit /\ [][RegistryNext]_vars

\* A specification of two pools at work: the domain rule for h1 with
\* maxConcurrency = 1 and capacity = 1, and the default pool of a
\* dispatcher of the global scope, which has no limit; requests for h1 and
\* h2, the reactions to their executor calls, and stats calls.
FlowRules ==
    { RuleConfig @@ [scope |-> "domain", url |-> <<Url("h1", <<"/">>)>>, capacity |-> 1] }

FlowUrls == { Url("h1", <<"/", "a">>), Url("h2", <<"/">>) }

\* The targets of the stats calls: a URL of h1 and one of h2.
FlowTargets == {input \in StatsInputs : input.type # "number"}

FlowNext ==
    \/ \E config \in FlowRules : Configure(config)
    \/ \E url \in FlowUrls : InvokeUrl(url)
    \/ \E c \in chains, kind \in Outcomes : Settle(c, kind)
    \/ \E c \in chains, a \in Answers : Then(c, a)
    \/ \E c \in chains, a \in Answers : Catch(c, a)
    \/ \E c \in chains : Finally2(c)
    \/ \E input \in FlowTargets : Stats(input)

FlowSpec == PathInit /\ [][FlowNext]_vars

\* A specification of requests that are in progress while rules are added:
\* a dispatcher whose default pools are per path, the path rule for
\* https://h1/a, requests to https://h1/a and https://h2/, and everything
\* that a pool does with a request.
BindRules == { PathRule(<<"/", "a">>, FALSE) }

BindNext ==
    \/ \E config \in BindRules : Configure(config)
    \/ \E url \in FlowUrls : InvokeUrl(url)
    \/ \E c \in chains, kind \in Outcomes : Settle(c, kind)
    \/ \E c \in chains, a \in Answers : Then(c, a)
    \/ \E c \in chains, a \in Answers : Catch(c, a)
    \/ \E c \in chains : Finally2(c)

BindSpec == RegistryInit /\ [][BindNext]_vars

\* A specification of the configuration of new pools: a dispatcher with
\* default pools per domain and a base configuration that sets every
\* property, or only some; match rules for https://h1/a that set none of
\* the ThrottleConfig properties, or interval, or maxConcurrency, or
\* maxRetry and capacity, and a path rule that sets none; requests to
\* https://h1/a and https://h2/.  No executor call settles.
BaseConfigs ==
    { [maxConcurrency |-> 2, interval |-> 0, maxRetry |-> 0, capacity |-> 1],
      [interval |-> 2, maxRetry |-> 3, shouldRetry |-> {"false"}] }

PartialConfigs ==
    { <<>>, [interval |-> 2], [maxConcurrency |-> 2], [maxRetry |-> 2, capacity |-> 2] }

DefaultsRules ==
    { c @@ [match |-> {Url("h1", <<"/", "a">>)}] : c \in PartialConfigs }
    \cup { [scope |-> "path", url |-> <<Url("h1", <<"/", "a">>)>>] }

DefaultsInit ==
    /\ pools = <<>>
    /\ items = <<>>
    /\ chains = {}
    /\ timers = EmptyBag
    /\ now = 0
    /\ lastCall = NoCall
    /\ hist = <<>>
    /\ dispatcher \in {NewDispatcher("domain", c) : c \in BaseConfigs}
    /\ configured = <<>>

DefaultsNext ==
    \/ \E config \in DefaultsRules : Configure(config)
    \/ \E url \in FlowUrls : InvokeUrl(url)

DefaultsSpec == DefaultsInit /\ [][DefaultsNext]_vars

\* A specification of the resolution of a configuration: the pool of a rule
\* that accepts every URL, made by configure from a ThrottleConfig that
\* supplies maxConcurrency and interval or leaves them out.
Optional(name, values) == {<<>>} \cup {name :> v : v \in values}

SuppliedConfigs ==
    { mc @@ iv @@ [maxRetry |-> 0] :
        mc \in Optional("maxConcurrency", {-1, 0, 1, 2}),
        iv \in Optional("interval", {-1, 0, 2}) }

ConfigInit ==
    /\ \E c \in SuppliedConfigs :
          LET rule == c @@ [match |-> Urls]
          IN  /\ pools = <<NewPool(ruleConf(rule))>>
              /\ dispatcher = configure(NewDispatcher("global", BaseConfig), rule, 1).dispatcher
              /\ configured = <<[config |-> rule, pool |-> 1, error |-> "none"]>>
    /\ items = <<>>
    /\ chains = {}
    /\ timers = EmptyBag
    /\ now = 0
    /\ lastCall = NoCall
    /\ hist = <<NoHist>>

ConfigSpec == ConfigInit /\ [][Next]_vars

\* ------------------------------------------------- the legacy throttlers
\* createThrottledFetch (packages/common/src/throttled-fetch.ts) and
\* RequestThrottler (packages/browser/src/request-throttler.ts): one pool
\* per key, made from one configuration; no rules, no interval, no
\* predicate.  The two differ in the constructor of the pool.  The state is
\* kept in the same variables: pools holds the legacy pools, dispatcher the
\* throttler (which of the two it is, its configuration completed with its
\* defaults, its map of pools), chains the fetch calls with their two
\* reactions, .then(onFulfilled, onRejected) and .finally.
LegacyKinds == {"common", "browser"}

\* The configurations given to a legacy throttler (Partial<ThrottleConfig>).
LegacyConfigs ==
    { sc @@ mc @@ rt @@ cp :
        sc \in Optional("scope", {"global"}),
        mc \in Optional("maxConcurrency", {-1, 0, 1}),
        rt \in Optional("maxRetry", {0}),
        cp \in Optional("capacity", {1}) }

\* The first argument of the legacy fetch: a URL object, the strings of an
\* absolute URL and of no URL.
LegacyInputs ==
    { [type |-> "URL", value |-> Url("h1", <<"/", "a">>)],
      [type |-> "string", value |-> <<"https://", "h2">>],
      [type |-> "string", value |-> <<"invalid-url">>] }

\* The configuration of a throttler: the defaults, overridden by what the
\* caller gives.
legacyDefaults(conf) ==
    conf @@ [scope |-> "domain", maxConcurrency |-> 0, maxRetry |-> 1, capacity |-> 0]

\* new RequestPool of either package.  The pool of packages/common clamps
\* maxConcurrency and maxRetry at 0, that of packages/browser takes them as
\* they are.
NewLegacyPool(kind, config) ==
    LET cap == Max(0, config.capacity)
    IN  [ maxConcurrency |-> IF kind = "common" THEN Max(0, config.maxConcurrency)
                             ELSE config.maxConcurrency,
          maxRetry       |-> IF kind = "common" THEN Max(0, config.maxRetry)
                             ELSE config.maxRetry,
          capacity       |-> cap,
          queue          |-> [i \in 1..cap |-> None],
          hasTimestamps  |-> FALSE,
          index          |-> 0,
          end            |-> 0,
          concurrency    |-> 0 ]

\* push of the legacy pools.
legacyPush(pool, r) ==
    [pool EXCEPT
        !.queue = IF pool.capacity # 0
                  THEN [@ EXCEPT ![(pool.end % pool.capacity) + 1] = r]
                  ELSE Append(@, r),
        !.end = @ + 1]

\* The test that add and the .finally reaction make before they call
\* process.
mayProcess(pool) == pool.concurrency < pool.maxConcurrency

\* The key of the pool of a request.
legacyKey(url, scope) ==
    CASE scope = "global" -> <<"global">>
      [] scope = "domain" -> <<url.host>>
      [] OTHER            -> <<"https://", url.host>> \o url.pathname

\* The URL of the first argument of the legacy fetch, in a sequence; the
\* empty sequence when new URL throws.
legacyUrl(input) ==
    IF input.type = "URL" THEN <<input.value>>
    ELSE IF Len(input.value) > 0 /\ input.value[1] = "/"
         THEN newURL(location.origin \o input.value)
         ELSE newURL(input.value)

\* A queue item of a legacy pool.
LegacyItem(p) ==
    [ pool |-> p, retried |-> 0, onSuccess |-> 0, onFailure |-> 0, attempts |-> 0 ]

\* process of pool p, which is left as `pool` by the code before the call,
\* with items its and chains chs: pop, ++concurrency, and the call of fetch
\* with its two reactions.
LegacyProcess(pls, p, pool, its, chs) ==
    LET r == pool.queue[(IF pool.capacity # 0 THEN pool.index % pool.capacity
                         ELSE pool.index) + 1]
    IN  /\ pools' = [pls EXCEPT ![p] = [pool EXCEPT !.index = @ + 1,
                                                    !.concurrency = @ + 1]]
        /\ items' = [its EXCEPT ![r].attempts = @ + 1]
        /\ chains' = chs \cup {[pool |-> p, item |-> r, attempt |-> its[r].attempts + 1,
                                stage |-> "running"]}

\* The throttled fetch of either package for first argument input: the URL,
\* the key, the pool of the key (made when there is none) and add, called
\* in the executor of the promise that is returned.
LegacyFetch(input) ==
    IF legacyUrl(input) = <<>>
    THEN /\ lastCall' = Threw("fetch", "TypeError")
         /\ UNCHANGED <<pools, items, chains, timers, now, hist, dispatcher, configured>>
    ELSE LET key    == legacyKey(legacyUrl(input)[1], dispatcher.config.scope)
             create == key \notin DOMAIN dispatcher.pools
             p      == IF create THEN Len(pools) + 1 ELSE dispatcher.pools[key]
             pls    == IF create
                       THEN Append(pools, NewLegacyPool(dispatcher.kind, dispatcher.config))
                       ELSE pools
             pool   == pls[p]
             full   == pool.capacity > 0 /\ pool.end - pool.index >= pool.capacity
             r      == Len(items) + 1
         IN  /\ dispatcher' = IF create
                              THEN [dispatcher EXCEPT !.pools = (key :> p) @@ @]
                              ELSE dispatcher
             /\ lastCall' = [ error   |-> IF full THEN "full" ELSE "none",
                              threw   |-> FALSE,
                              promise |-> IF full THEN "rejected" ELSE "pending",
                              pool    |-> p,
                              waiting |-> pool.end - pool.index,
                              active  |-> pool.concurrency ]
             /\ IF full
                THEN /\ pools' = pls
                     /\ UNCHANGED <<items, chains>>
                ELSE /\ Len(items) < MaxReq
                     /\ IF mayProcess(pool)
                        THEN LegacyProcess(pls, p, legacyPush(pool, r),
                                           Append(items, LegacyItem(p)), chains)
                        ELSE /\ pools' = [pls EXCEPT ![p] = legacyPush(pool, r)]
                             /\ items' = Append(items, LegacyItem(p))
                             /\ UNCHANGED chains
             /\ UNCHANGED <<timers, now, hist, configured>>

\* The fetch call of chain c settles with outcome kind and the first
\* reaction runs: onSuccess for an ok response, handleError for another
\* response and for a rejection.
LegacySettle(c, kind) ==
    LET pool == pools[c.pool]
        item == items[c.item]
    IN  /\ c.stage = "running"
        /\ chains' = (chains \ {c}) \cup {[c EXCEPT !.stage = "finally"]}
        /\ IF kind = "ok"
           THEN /\ items' = [items EXCEPT ![c.item].onSuccess = @ + 1]
                /\ UNCHANGED pools
           ELSE IF item.retried < pool.maxRetry
           THEN /\ items' = [items EXCEPT ![c.item].retried = @ + 1]
                /\ pools' = [pools EXCEPT ![c.pool] = legacyPush(pool, c.item)]
           ELSE /\ items' = [items EXCEPT ![c.item].onFailure = @ + 1]
                /\ UNCHANGED pools
        /\ lastCall' = NoCall
        /\ UNCHANGED <<timers, now, hist, dispatcher, configured>>

\* The second reaction of chain c: --concurrency, and process when a
\* request waits and the test allows it.
LegacyFinally(c) ==
    LET pool == [pools[c.pool] EXCEPT !.concurrency = @ - 1]
    IN  /\ c.stage = "finally"
        /\ IF pool.index < pool.end /\ mayProcess(pool)
           THEN LegacyProcess(pools, c.pool, pool, items, chains \ {c})
           ELSE /\ pools' = [pools EXCEPT ![c.pool] = pool]
                /\ chains' = chains \ {c}
                /\ UNCHANGED items
        /\ lastCall' = NoCall
        /\ UNCHANGED <<timers, now, hist, dispatcher, configured>>

LegacyInit ==
    /\ pools = <<>>
    /\ items = <<>>
    /\ chains = {}
    /\ timers = EmptyBag
    /\ now = 0
    /\ lastCall = NoCall
    /\ hist = <<>>
    /\ dispatcher \in { [kind |-> k, config |-> legacyDefaults(conf), pools |-> <<>>] :
                          k \in LegacyKinds, conf \in LegacyConfigs }
    /\ configured = <<>>

LegacyNext ==
    \/ \E input \in LegacyInputs : LegacyFetch(input)
    \/ \E c \in chains, kind \in Outcomes : LegacySettle(c, kind)
    \/ \E c \in chains : LegacyFinally(c)

\* Every fetch call settles and every reaction runs; calls of the throttled
\* fetch are up to the caller.
LegacySpec ==
    /\ LegacyInit
    /\ [][LegacyNext]_vars
    /\ WF_vars(\E c \in chains, kind \in Outcomes : LegacySettle(c, kind))
    /\ WF_vars(\E c \in chains : LegacyFinally(c))

\* ------------------------------------------------------------- properties
\* Pool p has a concurrency limit.
Limited(p) == pools[p].maxConcurrency # Infinity

\* The executor calls of pool p that were started and have not settled.
Running(p) == {c \in chains : c.pool = p /\ c.stage = "running"}

\* The queue length of pool p, tail - head.
Waiting(p) == pools[p].end - pools[p].index

\* The requests accepted so far.
Requests == 1..Len(items)

\* The number of callback calls made for request r.
Callbacks(r) == items[r].onSuccess + items[r].onFailure

\* The cursor values of the queue of its pool at which request r waits.
Slots(r) ==
    LET pool == pools[items[r].pool]
    IN  {k \in pool.index..(pool.end - 1) : pool.queue[slot(pool, k)] = r}

\* The executions of request r whose outcome has not been classified.
Executions(r) ==
    {c \in chains : c.item = r /\ c.stage \in {"running", "then", "catch"}}

\* C1: in a pool with maxConcurrency = N > 0, the in-flight counter and the
\* number of executor calls started and not yet settled never exceed N.
C1_ConcurrencyBound ==
    \A p \in PoolIds :
        Limited(p) =>
            /\ pools[p].concurrency <= pools[p].maxConcurrency
            /\ Cardinality(Running(p)) <= pools[p].maxConcurrency

\* The limit is reached while a request waits.
C1_Witness ==
    \E p \in PoolIds :
        /\ Limited(p)
        /\ Cardinality(Running(p)) = pools[p].maxConcurrency
        /\ Waiting(p) > 0

\* C2: in a pool with interval I > 0 and maxConcurrency = N > 0, every
\* admission, retries included, happens at least I after the admission N
\* admissions before it.
C2_IntervalSpacing ==
    [][ \A p \in PoolIds :
          ( /\ pools[p].interval > 0
            /\ Limited(p)
            /\ pools'[p].index > pools[p].index
            /\ Len(hist[p].times) = pools[p].maxConcurrency )
          => now' >= hist[p].times[1] + pools[p].interval ]_vars

\* A pool with interval and maxConcurrency = 2 has made a third admission.
C2_Witness ==
    \E p \in PoolIds :
        /\ pools[p].interval > 0
        /\ pools[p].maxConcurrency = 2
        /\ pools[p].index >= 3

\* Request r has had no attempt that ended with an ok response.  (Without a
\* shouldRetry predicate an ok response always reaches the success callback.)
AlwaysFailed(r) ==
    /\ items[r].onSuccess = 0
    /\ \A c \in chains : c.item = r => c.value.kind # "ok"

\* C3: under the default policy a request whose attempts all fail is
\* executed maxRetry + 1 times, not more; its failure callback fires only
\* after the last of them, with the outcome of that attempt.
C3_RetryBound ==
    \A r \in Requests :
        LET pool == pools[items[r].pool]
        IN  (pool.shouldRetry = NoPredicate /\ AlwaysFailed(r)) =>
                /\ items[r].attempts <= pool.maxRetry + 1
                /\ items[r].onFailure > 0 =>
                      /\ items[r].attempts = pool.maxRetry + 1
                      /\ items[r].passed.attempt = pool.maxRetry + 1
                      /\ items[r].passed.kind \in {"bad", "err"}

\* C4: every admission takes the item that was enqueued first among those
\* waiting, a retried item counting as enqueued when it is re-enqueued.
C4_Fifo == \A p \in PoolIds : hist[p].inOrder

\* C5: with capacity C > 0, a call of add at queue length C fails with the
\* capacity error and changes nothing (no executor call is made for the
\* request); a call of add at a queue length below C is accepted.
C5_CapacityError ==
    [][ LET call == lastCall'
            p    == call.pool
        IN  (call.promise # "none" /\ pools[p].capacity > 0) =>
              /\ call.waiting = pools[p].capacity =>
                    /\ call.error = "full"
                    /\ UNCHANGED <<pools, items, chains, timers, hist>>
              /\ call.waiting < pools[p].capacity =>
                    /\ call.error = "none"
                    /\ Len(items') = Len(items) + 1
                    /\ pools'[p].end = pools[p].end + 1 ]_vars

\* add has failed at queue length C after an admission.
C5_Witness ==
    /\ lastCall.error = "full"
    /\ lastCall.waiting = pools[lastCall.pool].capacity
    /\ pools[lastCall.pool].index > 0

\* C6: with capacity C > 0 the queue length never exceeds C.
C6_QueueBound ==
    \A p \in PoolIds : pools[p].capacity > 0 => Waiting(p) <= pools[p].capacity

\* C7: every accepted request eventually gets its success or its failure
\* callback.
C7_Liveness ==
    \A r \in 1..MaxReq :
        (r \in Requests) ~> (r \in Requests /\ Callbacks(r) > 0)

\* C8: a request is in at most one place, a queue position or an execution;
\* it gets at most one callback, and after it is in no place.
C8_StateMachine ==
    \A r \in Requests :
        /\ Cardinality(Slots(r)) + Cardinality(Executions(r)) <= 1
        /\ Callbacks(r) <= 1
        /\ Callbacks(r) = 1 => Slots(r) = {} /\ Executions(r) = {}

\* C9, as claimed: the capacity error is thrown by invoke and is not a
\* rejection of the returned promise.
C9_ThrownByInvoke ==
    lastCall.error = "full" => lastCall.threw /\ lastCall.promise # "rejected"

\* C9, amended: the capacity error is the rejection of the promise that
\* invoke returns; invoke itself does not throw.
C9_RejectedPromise ==
    lastCall.error = "full" => ~lastCall.threw /\ lastCall.promise = "rejected"

\* invoke has returned a rejected promise.
C9_Witness == lastCall.promise = "rejected" /\ ~lastCall.threw

\* C10, as claimed: with capacity C > 0, the requests waiting and in flight
\* together never exceed C.
C10_WaitingAndInFlight ==
    \A p \in PoolIds :
        pools[p].capacity > 0 =>
            Waiting(p) + pools[p].concurrency <= pools[p].capacity

\* C10, amended: with capacity C > 0, add fails exactly when the queue
\* length is C or more, whatever the number of requests in flight.
C10_WaitingOnly ==
    (lastCall.promise # "none" /\ pools[lastCall.pool].capacity > 0) =>
        (lastCall.error = "full" <=>
            lastCall.waiting >= pools[lastCall.pool].capacity)

\* With capacity = 1 and maxConcurrency = 1, add is accepted while the
\* first request is in flight.
C10_Witness ==
    /\ lastCall.promise = "pending"
    /\ pools[lastCall.pool].capacity = 1
    /\ pools[lastCall.pool].maxConcurrency = 1
    /\ lastCall.active = 1
    /\ lastCall.waiting = 0

\* ------------------------------------------- classification of an outcome
\* This step is the reaction of chain c that classifies its outcome.
Classified(c) ==
    /\ c \in chains
    /\ c.stage \in {"then", "catch"}
    /\ c \notin chains'

\* This step calls callback cb of the item of chain c with the outcome of c
\* and does not re-enqueue the item.
Called(c, cb) ==
    LET before == items[c.item]
        after  == items'[c.item]
    IN  /\ after.onSuccess = before.onSuccess + (IF cb = "onSuccess" THEN 1 ELSE 0)
        /\ after.onFailure = before.onFailure + (IF cb = "onFailure" THEN 1 ELSE 0)
        /\ after.passed = c.value
        /\ after.retried = before.retried
        /\ after.attempts = before.attempts
        /\ pools'[c.pool].end = pools[c.pool].end

\* This step re-enqueues the item of chain c at the tail and calls no
\* callback.
Requeued(c) ==
    LET before == items[c.item]
        after  == items'[c.item]
        pool   == pools[c.pool]
    IN  /\ after.retried = before.retried + 1
        /\ after.onSuccess = before.onSuccess
        /\ after.onFailure = before.onFailure
        /\ pools'[c.pool].end = pool.end + 1
        /\ pools'[c.pool].queue[slot(pool, pool.end)] = c.item

\* The retry logic: re-enqueue while the retry counter is below maxRetry,
\* the failure callback with the outcome once it has reached maxRetry.
Retried(c) ==
    IF items[c.item].retried < pools[c.pool].maxRetry
    THEN Requeued(c)
    ELSE Called(c, "onFailure")

\* The predicate of the pool of chain c gives answer a for every outcome.
Answering(c, a) == pools[c.pool].shouldRetry = {a}

\* The pool of chain c has no predicate, or one that has no opinion.
DefaultPolicy(c) ==
    pools[c.pool].shouldRetry = NoPredicate \/ Answering(c, "void")

\* C11: when shouldRetry is absent or gives no opinion, a transport error and
\* a response with a non-success status go to the retry logic, and the
\* success callback is called, without retry, exactly for a response with a
\* success status.
C11_DefaultPolicy ==
    [][ \A c \in chains :
          (Classified(c) /\ DefaultPolicy(c)) =>
            /\ c.value.kind \in {"err", "bad"} => Retried(c)
            /\ Called(c, "onSuccess") <=> c.value.kind = "ok" ]_vars

\* Under a predicate without opinion, a request got its response with a
\* success status after a retry.
C11_Witness ==
    \E r \in Requests :
        /\ pools[items[r].pool].shouldRetry = {"void"}
        /\ items[r].retried = 1
        /\ items[r].onSuccess = 1
        /\ items[r].passed.kind = "ok"

\* C12: when shouldRetry returns false for a response, the success callback
\* is called with that response, whatever its status, and the request is not
\* executed again (retry counter and number of attempts unchanged).
C12_FalseOnResponse ==
    [][ \A c \in chains :
          (Classified(c) /\ Answering(c, "false") /\ c.stage = "then") =>
            /\ Called(c, "onSuccess")
            /\ Slots(c.item)' = Slots(c.item) ]_vars

\* A response with a non-success status went to the success callback of a
\* request that had retries left.
C12_Witness ==
    \E r \in Requests :
        /\ pools[items[r].pool].shouldRetry = {"false"}
        /\ items[r].onSuccess = 1
        /\ items[r].passed.kind = "bad"
        /\ items[r].retried < pools[items[r].pool].maxRetry

\* C13: when shouldRetry returns false for a transport error, the failure
\* callback is called with that error and the request is not retried, also
\* when its retry counter is below maxRetry.
C13_FalseOnError ==
    [][ \A c \in chains :
          (Classified(c) /\ Answering(c, "false") /\ c.stage = "catch") =>
            /\ Called(c, "onFailure")
            /\ Slots(c.item)' = Slots(c.item) ]_vars

\* A transport error went to the failure callback of a request that had
\* retries left.
C13_Witness ==
    \E r \in Requests :
        /\ pools[items[r].pool].shouldRetry = {"false"}
        /\ items[r].onFailure = 1
        /\ items[r].passed.kind = "err"
        /\ items[r].retried < pools[items[r].pool].maxRetry

\* C14: when shouldRetry returns true, every outcome goes to the retry
\* logic: also a response with a success status is re-enqueued while the
\* retry counter is below maxRetry, and once the counter has reached
\* maxRetry the failure callback, not the success callback, is called with
\* the last outcome.
C14_TrueRetries ==
    [][ \A c \in chains :
          (Classified(c) /\ Answering(c, "true")) => Retried(c) ]_vars

\* A response with a success status went to the failure callback after the
\* retries of the request.
C14_Witness ==
    \E r \in Requests :
        /\ pools[items[r].pool].shouldRetry = {"true"}
        /\ pools[items[r].pool].maxRetry > 0
        /\ items[r].retried = pools[items[r].pool].maxRetry
        /\ items[r].onFailure = 1
        /\ items[r].onSuccess = 0
        /\ items[r].passed.kind = "ok"

\* C15, as claimed: under the default policy, a response with a non-success
\* status that arrives when the retries are exhausted goes to the success
\* callback, and the failure callback is not called.
C15_ExhaustedResolves ==
    [][ \A c \in chains :
          ( /\ Classified(c) /\ DefaultPolicy(c)
            /\ c.value.kind = "bad"
            /\ items[c.item].retried >= pools[c.pool].maxRetry )
          => Called(c, "onSuccess") ]_vars

\* C15, amended: under the default policy, a response with a non-success
\* status that arrives when the retries are exhausted goes to the failure
\* callback, which receives the response itself, and the success callback
\* is not called.
C15_ExhaustedRejects ==
    [][ \A c \in chains :
          ( /\ Classified(c) /\ DefaultPolicy(c)
            /\ c.value.kind = "bad"
            /\ items[c.item].retried >= pools[c.pool].maxRetry )
          => Called(c, "onFailure") ]_vars

\* A request without a predicate whose attempts all ended with a non-success
\* status has had its callback after maxRetry retries.
C15_Witness ==
    \E r \in Requests :
        /\ pools[items[r].pool].shouldRetry = NoPredicate
        /\ pools[items[r].pool].maxRetry > 0
        /\ items[r].attempts = pools[items[r].pool].maxRetry + 1
        /\ Callbacks(r) = 1
        /\ items[r].passed = Result("bad", items[r].attempts)

\* ------------------------------------------------------------------ routing
\* The kind of a rule: "match", "regex", "domain" or "path".
Kind(config) ==
    IF "scope" \in DOMAIN config THEN config.scope
    ELSE IF "regex" \in DOMAIN config THEN "regex"
    ELSE "match"

\* The URLs of a rule with a scope, and the domains of a domain rule.
UrlsOf(config) ==
    IF "url" \in DOMAIN config THEN {config.url[i] : i \in 1..Len(config.url)} ELSE {}

DomainsOf(config) ==
    IF "domains" \in DOMAIN config
    THEN {config.domains[i] : i \in 1..Len(config.domains)} ELSE {}

\* A pathname with its trailing slash stripped.
Norm(path) == IF endsWith(path, "/") THEN dropLast(path) ELSE path

IsPrefix(a, b) == Len(a) <= Len(b) /\ SubSeq(b, 1, Len(a)) = a

\* url has the origin and, up to a trailing slash, the path of u.
SamePath(u, url) ==
    u.host = url.host /\ Norm(u.pathname) = Norm(url.pathname)

\* The path of url lies below the path of u: it continues it after a "/".
Below(u, url) ==
    /\ u.host = url.host
    /\ IsPrefix(Norm(u.pathname) \o <<"/">>, url.pathname)
    /\ ~SamePath(u, url)

\* The rule allows subpath matching.
Subpath(config) ==
    "matchSubpath" \in DOMAIN config /\ config.matchSubpath = TRUE

\* The rule is meant for url.
Accepts(config, url) ==
    CASE Kind(config) = "match"  -> url \in config.match
      [] Kind(config) = "regex"  -> url \in config.regex
      [] Kind(config) = "domain" ->
            host(url) \in DomainsOf(config) \cup {host(u) : u \in UrlsOf(config)}
      [] Kind(config) = "path"   ->
            \E u \in UrlsOf(config) :
                SamePath(u, url) \/ (Subpath(config) /\ Below(u, url))

\* The configure calls so far, of the given kinds, whose rule is meant for
\* url; the pools of a set of calls; the latest call of a set.
Matching(kinds, url) ==
    {i \in 1..Len(configured) :
        Kind(configured[i].config) \in kinds /\ Accepts(configured[i].config, url)}

PoolsOf(calls) == {configured[i].pool : i \in calls}

Latest(calls) == CHOOSE i \in calls : \A j \in calls : j <= i

\* No configure call so far has thrown after registering a key.
Clean == \A i \in 1..Len(configured) : configured[i].error = "none"

\* The routing keys of a rule with a scope: the hosts of a domain rule, the
\* origin and path, trailing slash stripped, of the URLs of a path rule.
RoutingKeys(config) ==
    IF Kind(config) = "domain"
    THEN DomainsOf(config) \cup {host(u) : u \in UrlsOf(config)}
    ELSE {origin(u) \o Norm(u.pathname) : u \in UrlsOf(config)}

\* C16: the pool selected for a request is that of a matching predicate
\* rule if there is one; otherwise that of a matching pattern rule;
\* otherwise that of a matching URL-component rule; otherwise the default
\* pool of the key of the URL in the default scope of the dispatcher, which
\* has the base configuration.
C16_Precedence ==
    [][ \A url \in MixedUrls :
          InvokeUrl(url) =>
            LET p     == lastCall'.pool
                preds == Matching({"match"}, url)
                pats  == Matching({"regex"}, url)
                comps == Matching({"domain", "path"}, url)
            IN  IF preds # {} THEN p \in PoolsOf(preds)
                ELSE IF pats # {} THEN p \in PoolsOf(pats)
                ELSE IF comps # {} THEN p \in PoolsOf(comps)
                ELSE /\ p \notin PoolsOf(1..Len(configured))
                     /\ get(dispatcher'.defaultPools, getKey(url, dispatcher.scope)) = p
                     /\ pools'[p].maxRetry = NewPool(BaseConfig).maxRetry
                     /\ pools'[p].maxConcurrency = NewPool(BaseConfig).maxConcurrency ]_vars

\* A predicate rule, a pattern rule and a domain rule match one URL, and the
\* latest request went to the pool of a predicate rule.
C16_Witness ==
    /\ \E url \in MixedUrls :
          /\ Matching({"regex"}, url) # {}
          /\ Matching({"domain"}, url) # {}
          /\ lastCall.pool \in PoolsOf(Matching({"match"}, url))
    /\ lastCall.promise = "pending"

\* C17: among the predicate rules that match a URL the pool of the one
\* registered last is selected, and so among the pattern rules when no
\* predicate rule matches.
C17_LatestWins ==
    [][ \A url \in MixedUrls :
          InvokeUrl(url) =>
            LET preds == Matching({"match"}, url)
                pats  == Matching({"regex"}, url)
            IN  /\ preds # {} => lastCall'.pool = configured[Latest(preds)].pool
                /\ (preds = {} /\ pats # {}) =>
                      lastCall'.pool = configured[Latest(pats)].pool ]_vars

\* Two different pattern rules match one URL, no predicate rule does, and
\* the latest request went to the pool of the later of the two.
C17_Witness ==
    /\ \E url \in MixedUrls :
          LET pats == Matching({"regex"}, url)
          IN  /\ Matching({"match"}, url) = {}
              /\ \E i, j \in pats : configured[i].config # configured[j].config
              /\ lastCall.pool = configured[Latest(pats)].pool
    /\ lastCall.promise = "pending"

\* C18: among the rules with a scope, a path rule for the path of the URL
\* wins over the path rules for its ancestors that allow subpath matching,
\* of these the one for the deepest ancestor wins, and they win over the
\* domain rule for the host of the URL.
C18_UrlRules ==
    [][ \A url \in Urls :
          (InvokeUrl(url) /\ Clean) =>
            LET p     == lastCall'.pool
                paths == {i \in 1..Len(configured) : Kind(configured[i].config) = "path"}
                exact == {i \in paths :
                            \E u \in UrlsOf(configured[i].config) : SamePath(u, url)}
                above == {<<i, u>> \in paths \X Urls :
                            /\ u \in UrlsOf(configured[i].config)
                            /\ Subpath(configured[i].config)
                            /\ Below(u, url)}
                doms  == Matching({"domain"}, url)
            IN  IF exact # {} THEN p \in PoolsOf(exact)
                ELSE IF above # {}
                THEN \E a \in above :
                        /\ p = configured[a[1]].pool
                        /\ \A b \in above :
                              Len(Norm(b[2].pathname)) <= Len(Norm(a[2].pathname))
                ELSE doms # {} => p \in PoolsOf(doms) ]_vars

\* C19: a request goes to the pool of a path rule only if its URL has the
\* path of the rule or, when the rule allows subpath matching, a path below
\* it; and it goes there when the rule is the only one meant for the URL.
C19_SubpathMatch ==
    [][ \A url \in Urls :
          (InvokeUrl(url) /\ Clean) =>
            \A i \in 1..Len(configured) :
                Kind(configured[i].config) = "path" =>
                  /\ lastCall'.pool = configured[i].pool
                        => Accepts(configured[i].config, url)
                  /\ Matching({"domain", "path"}, url) = {i}
                        => lastCall'.pool = configured[i].pool ]_vars

\* C20: configure of a rule with a scope throws the duplicate-registration
\* error when a routing key of the rule has a registered pool.
C20_DuplicateKey ==
    [][ \A config \in UrlRules :
          ( /\ Configure(config)
            /\ RoutingKeys(config) \cap DOMAIN dispatcher.urlPools # {} )
          => lastCall'.error = "Error" /\ lastCall'.threw ]_vars

\* configure has thrown the duplicate-registration error at the first key
\* of a rule, after two rules with a scope were registered.
C20_Witness ==
    /\ lastCall.error = "Error"
    /\ lastCall.threw
    /\ lastCall.pool = None
    /\ Len(configured) = 2
    /\ Clean

\* ------------------------------------------------------------- the registry
\* What a rule supplies of scope, regex and match.
Discriminants(config) == {"scope", "regex", "match"} \cap DOMAIN config

\* This step leaves the registry and the pools as they are.
RegistryUnchanged == UNCHANGED <<dispatcher, pools, configured>>

\* C21: configure rejects a rule that supplies none, or more than one, of
\* scope, regex and match with a TypeError, and registers nothing for it.
C21_RuleShape ==
    [][ \A config \in ShapeRules :
          (Configure(config) /\ Cardinality(Discriminants(config)) # 1) =>
            /\ lastCall'.error = "TypeError"
            /\ lastCall'.threw
            /\ RegistryUnchanged ]_vars

\* C22: a configure call that succeeds creates one pool, with the limits of
\* the rule, and every routing key of the rule maps to it (a regex or match
\* rule is appended to its list with it); a request for any URL of the rule
\* that no regex or match rule accepts goes to that pool, so the requests
\* for the URLs of the rule share its limit.
C22_OnePoolPerRule ==
    [][ /\ \A config \in ShapeRules :
              (Configure(config) /\ lastCall'.error = "none") =>
                LET n == Len(pools) + 1
                    d == dispatcher'
                IN  /\ Len(pools') = n
                    /\ \A p \in DOMAIN pools : pools'[p] = pools[p]
                    /\ pools'[n].maxConcurrency = config.maxConcurrency
                    /\ pools'[n].concurrency = 0 /\ pools'[n].end = 0
                    /\ CASE Kind(config) = "regex" ->
                              d.regexPools = Append(dispatcher.regexPools, <<config.regex, n>>)
                         [] Kind(config) = "match" ->
                              d.customPools = Append(dispatcher.customPools, <<config.match, n>>)
                         [] OTHER ->
                              \A key \in RoutingKeys(config) : get(d.urlPools, key) = n
        /\ \A input \in Inputs :
              (InvokeArgs(input) /\ parseUrl(input).error = "none") =>
                \A i \in 1..Len(configured) :
                    ( /\ parseUrl(input).url \in UrlsOf(configured[i].config)
                      /\ Matching({"match", "regex"}, parseUrl(input).url) = {}
                      /\ Clean )
                    => LET p == configured[i].pool
                       IN  /\ lastCall'.pool = p
                           /\ pools'[p].concurrency =
                                 IF pools[p].concurrency < configured[i].config.maxConcurrency
                                 THEN pools[p].concurrency + 1
                                 ELSE pools[p].concurrency ]_vars

\* The pool of the path rule for two URLs holds a request in flight and one
\* that waits for it.
C22_Witness ==
    \E i \in 1..Len(configured) :
        /\ Cardinality(UrlsOf(configured[i].config)) = 2
        /\ lastCall.pool = configured[i].pool
        /\ lastCall.promise = "pending"
        /\ lastCall.active = 1
        /\ Waiting(configured[i].pool) = 1

\* The default pool of a key is kept once it is made.
DefaultsKept ==
    \A key \in DOMAIN dispatcher.defaultPools :
        get(dispatcher'.defaultPools, key) = dispatcher.defaultPools[key]

\* The pool of a routing key is kept, and the regex and match lists only
\* grow at the end.
RulesKept ==
    /\ \A key \in DOMAIN dispatcher.urlPools :
          get(dispatcher'.urlPools, key) = dispatcher.urlPools[key]
    /\ Len(dispatcher'.regexPools) >= Len(dispatcher.regexPools)
    /\ SubSeq(dispatcher'.regexPools, 1, Len(dispatcher.regexPools)) = dispatcher.regexPools
    /\ Len(dispatcher'.customPools) >= Len(dispatcher.customPools)
    /\ SubSeq(dispatcher'.customPools, 1, Len(dispatcher.customPools)) = dispatcher.customPools

\* The key of url in the default scope of the dispatcher.
DefaultKey(url) ==
    CASE dispatcher.scope = "global" -> <<>>
      [] dispatcher.scope = "domain" -> <<url.host>>
      [] dispatcher.scope = "path"   -> <<"https://", url.host>> \o Norm(url.pathname)

\* C23: no step removes or replaces the pool of a key or an entry of a rule
\* list; a request that no rule is meant for makes the default pool of its
\* key when there is none, and goes to the default pool of its key when
\* there is one.
C23_RegistryStable ==
    [][ /\ DefaultsKept
        /\ RulesKept
        /\ \A input \in Inputs :
              ( /\ InvokeArgs(input)
                /\ parseUrl(input).error = "none"
                /\ Matching({"match", "regex", "domain", "path"}, parseUrl(input).url) = {} )
              => LET key == DefaultKey(parseUrl(input).url)
                 IN  IF key \in DOMAIN dispatcher.defaultPools
                     THEN /\ lastCall'.pool = dispatcher.defaultPools[key]
                          /\ Len(pools') = Len(pools)
                          /\ dispatcher' = dispatcher
                     ELSE /\ lastCall'.pool = Len(pools) + 1
                          /\ Len(pools') = Len(pools) + 1
                          /\ dispatcher'.defaultPools =
                                (key :> Len(pools) + 1) @@ dispatcher.defaultPools ]_vars

\* A default pool that was made before a rule was registered has taken a
\* second request after that.
C23_Witness ==
    \E key \in DOMAIN dispatcher.defaultPools :
        LET p == dispatcher.defaultPools[key]
        IN  /\ lastCall.pool = p
            /\ lastCall.promise = "pending"
            /\ lastCall.active = 1
            /\ pools[p].concurrency = 2
            /\ \E i \in 1..Len(configured) : configured[i].pool > p

\* No pool exists for url: no rule is meant for it and its key has no
\* default pool.
NoPoolFor(url) ==
    /\ Matching({"match", "regex", "domain", "path"}, url) = {}
    /\ DefaultKey(url) \notin DOMAIN dispatcher.defaultPools

\* C24: a stats call changes neither the registry nor a pool nor a request,
\* makes no default pool, and returns zero counts for a target that has no
\* pool.
C24_StatsReadOnly ==
    [][ \A input \in StatsInputs :
          Stats(input) =>
            /\ UNCHANGED <<dispatcher, pools, items, chains, timers, hist, configured>>
            /\ (parseUrl(input).error = "none" /\ NoPoolFor(parseUrl(input).url)) =>
                  /\ lastCall'.pool = None
                  /\ lastCall'.stats = [completed |-> 0, active |-> 0, waiting |-> 0] ]_vars

\* stats has returned zero counts for a target without a pool, in a
\* dispatcher that has the pool of a rule and a default pool with a request.
C24_Witness ==
    /\ "stats" \in DOMAIN lastCall
    /\ lastCall.pool = None
    /\ lastCall.stats = [completed |-> 0, active |-> 0, waiting |-> 0]
    /\ dispatcher.defaultPools # <<>>
    /\ Len(configured) > 0
    /\ Len(items) > 0

\* The string s is an absolute URL, or a path to resolve against the origin
\* of the location.
WellFormed(s) == Len(s) > 0 /\ s[1] \in {"https://", "/"}

\* The argument holds no URL that can be parsed.
Unparsable(input) ==
    CASE input.type = "URL" -> FALSE
      [] input.type = "string" -> ~WellFormed(input.value)
      [] input.type = "object" /\ "url" \in DOMAIN input -> ~WellFormed(input.url)
      [] OTHER -> TRUE

\* C27: invoke with an argument whose URL cannot be parsed throws a
\* TypeError itself (it returns no promise), makes no default pool, enqueues
\* nothing and calls no executor; with any other argument it does not throw
\* and returns a promise.
C27_InvalidUrl ==
    [][ \A input \in Inputs :
          InvokeArgs(input) =>
            IF Unparsable(input)
            THEN /\ lastCall'.threw
                 /\ lastCall'.error = "TypeError"
                 /\ lastCall'.promise = "none"
                 /\ UNCHANGED <<dispatcher, pools, items, chains, timers, hist>>
            ELSE /\ ~lastCall'.threw
                 /\ lastCall'.promise # "none" ]_vars

\* invoke has thrown the TypeError in a dispatcher with a rule and a
\* request in flight.
C27_Witness ==
    /\ lastCall = Threw("invoke", "TypeError")
    /\ Len(configured) > 0
    /\ chains # {}

\* ------------------------------------------------------ stats and the pools
\* The pool that handles the requests for url, when it exists: the pool of
\* the one rule meant for url, or else the default pool of the key of url.
HandlerOf(url) ==
    LET rules == Matching({"match", "regex", "domain", "path"}, url)
    IN  IF rules # {} THEN PoolsOf(rules)
        ELSE IF DefaultKey(url) \in DOMAIN dispatcher.defaultPools
        THEN {dispatcher.defaultPools[DefaultKey(url)]}
        ELSE {}

\* The requests of pool p that have had a terminal callback.
Completed(p) == {r \in Requests : items[r].pool = p /\ Callbacks(r) > 0}

Owned(q) ==
    << pools[q], hist[q],
       {c \in chains : c.pool = q},
       {<<r, items[r]>> : r \in {x \in Requests : items[x].pool = q}} >>

\* This step is an event of pool p: a call of add for it, or a reaction of
\* one of its chains.
EventOf(p) ==
    \/ \E url \in FlowUrls : InvokeUrl(url) /\ lastCall'.pool = p
    \/ \E c \in chains : c.pool = p /\ c \notin chains'

\* C26: an event of one pool leaves what belongs to every other pool as it
\* is; the pool of the domain rule with maxConcurrency = 1 has one request
\* in flight at most, and a request for the other host, for which there is
\* no rule, is admitted by the default pool in the call of invoke, whatever
\* the state of the pool of the rule.
C26_Independent ==
    [][ /\ \A p \in DOMAIN pools' :
              EventOf(p) => \A q \in DOMAIN pools \ {p} : Owned(q)' = Owned(q)
        /\ \A i \in 1..Len(configured) :
              Cardinality(Running(configured[i].pool)) <= 1
        /\ \A url \in FlowUrls :
              (InvokeUrl(url) /\ Matching({"domain"}, url) = {}) =>
                \E p \in DOMAIN pools' \ PoolsOf(1..Len(configured)) :
                    /\ lastCall'.pool = p
                    /\ lastCall'.promise = "pending"
                    /\ items'[Len(items')].attempts = 1
                    /\ Cardinality(Running(p)') = Cardinality(Running(p)) + 1 ]_vars

\* While the pool of the rule holds a request in flight, which is its
\* limit, the default pool has admitted a request in the call of invoke.
C26_Witness ==
    /\ \E i \in 1..Len(configured) :
          /\ pools[configured[i].pool].concurrency = 1
          /\ pools[configured[i].pool].maxConcurrency = 1
    /\ lastCall.promise = "pending"
    /\ lastCall.pool \notin PoolsOf(1..Len(configured))
    /\ pools[lastCall.pool].concurrency >= 1

\* ------------------------------------------- resolution of a configuration
\* The rule of configure call i supplies property f.
Supplied(i, f) == f \in DOMAIN configured[i].config

\* Configure call i supplies a positive interval.
PositiveInterval(i) ==
    Supplied(i, "interval") /\ configured[i].config.interval > 0

\* The pool of configure call i works with the concurrency limit 1: no two
\* of its executor calls run at a time.
LimitOne(i) == Cardinality(Running(configured[i].pool)) <= 1

\* The pool of configure call i works without a concurrency limit (and
\* without a positive interval): no request waits in its queue after a step.
Unbounded(i) == Waiting(configured[i].pool) = 0

\* C28: a pool made from a configuration without maxConcurrency has the
\* concurrency limit 1 when the interval is positive, and no concurrency
\* limit when the interval is not supplied, or is 0.
C28_DefaultConcurrency ==
    \A i \in 1..Len(configured) :
        ~Supplied(i, "maxConcurrency") =>
            IF PositiveInterval(i) THEN LimitOne(i)
            ELSE (~Supplied(i, "interval") \/ configured[i].config.interval = 0)
                    => Unbounded(i)

\* C29: a pool made from a configuration with a positive interval and a
\* maxConcurrency of 0 or less has the concurrency limit 1.
C29_NonPositiveConcurrency ==
    \A i \in 1..Len(configured) :
        ( /\ PositiveInterval(i)
          /\ Supplied(i, "maxConcurrency")
          /\ configured[i].config.maxConcurrency <= 0 )
        => LimitOne(i)

\* ---------------------------------------------------------------------
\* Windows of consecutive admissions
\* ---------------------------------------------------------------------

\* Pool p makes an admission in this step.
Admits(p) == pools'[p].index > pools[p].index

CallbackCounts == [r \in Requests |-> <<items[r].onSuccess, items[r].onFailure>>]

\* C32: a call of add that fails with the capacity error leaves the pool as
\* it was: nothing is enqueued, the cursors, the in-flight counter and the
\* timestamp ring keep their values, no admission attempt is made (no
\* executor call starts, no timer is set), and the request is not among the
\* items of the pool, so that no callback of it is ever made.
C32_RejectedAddNoEffect ==
    [][ \A p \in PoolIds :
          (lastCall'.error = "full" /\ lastCall'.pool = p) =>
              /\ pools'[p].queue = pools[p].queue
              /\ pools'[p].index = pools[p].index
              /\ pools'[p].end = pools[p].end
              /\ pools'[p].concurrency = pools[p].concurrency
              /\ pools'[p].timestamps = pools[p].timestamps
              /\ chains' = chains
              /\ timers' = timers
              /\ Len(items') = Len(items)
              /\ CallbackCounts' = CallbackCounts ]_vars

\* add has failed while a slot of the pool was free: an executor call has
\* settled and the second reaction of its chain has not run yet.
C32_Witness ==
    /\ lastCall.error = "full"
    /\ pools[lastCall.pool].concurrency < pools[lastCall.pool].maxConcurrency
    /\ Waiting(lastCall.pool) > 0

\* ---------------------------------------------------------------------
\* Wake-ups
\* ---------------------------------------------------------------------

\* A call of #process of pool p is pending: a timer of the pool, or a chain
\* of the pool whose executor call has settled and whose last reaction,
\* .finally(() => this.#process()), has not run yet.
RetriggerPending(p) ==
    \/ \E tm \in BagToSet(timers) : tm.pool = p
    \/ \E c \in chains : c.pool = p /\ c.stage # "running"

\* No request waits in pool p while a slot is free and nothing will call
\* #process.
NoLostWakeup(p) ==
    (Waiting(p) > 0 /\ pools[p].concurrency < pools[p].maxConcurrency)
        => RetriggerPending(p)

\* The call of add made in this step for pool p, which has no timestamp
\* ring and an empty queue, was accepted.
AddedToEmptyQueue(p) ==
    /\ lastCall'.promise = "pending"
    /\ lastCall'.pool = p
    /\ lastCall'.waiting = 0
    /\ ~pools[p].hasTimestamps

\* C33: whenever a request waits and the in-flight counter is below
\* maxConcurrency, a call of #process is pending.  In a pool without a
\* timestamp ring a request added to an empty queue is admitted in its call
\* of add when fewer than maxConcurrency requests are in flight, and waits
\* otherwise; a waiting request is admitted only by the last reaction of a
\* chain, after an executor call has settled.
C33_NoLostWakeup ==
    /\ [](\A p \in PoolIds : NoLostWakeup(p))
    /\ [][ \A p \in PoolIds :
             /\ AddedToEmptyQueue(p) =>
                   LET r == Len(items')
                   IN  IF lastCall'.active < pools[p].maxConcurrency
                       THEN items'[r].attempts = 1 /\ Waiting(p)' = 0
                       ELSE items'[r].attempts = 0 /\ Waiting(p)' = 1
             /\ (Admits(p) /\ ~pools[p].hasTimestamps /\ lastCall'.promise = "none") =>
                   \E c \in chains : c.pool = p /\ c.stage = "finally2" /\ c \notin chains'
          ]_vars

\* A request waits while a slot is free: the executor call of another
\* request has settled and the last reaction of its chain has yet to run.
C33_Witness ==
    \E p \in PoolIds :
        /\ ~pools[p].hasTimestamps
        /\ Limited(p)
        /\ Waiting(p) > 0
        /\ pools[p].concurrency < pools[p].maxConcurrency
        /\ \E c \in chains : c.pool = p /\ c.stage = "finally2"

\* ---------------------------------------------------------------------
\* configure calls that throw
\* ---------------------------------------------------------------------

\* The pool that getPool finds for every URL, in this state.
Routing == [url \in Urls |-> getPool(dispatcher, url)]

\* C34: a configure call that throws leaves the registry as it was: no key
\* of the rule is registered, and every URL is routed as before.
C34_ConfigureAtomic ==
    [][ \A config \in AtomicRules :
          (Configure(config) /\ lastCall'.threw) =>
              /\ dispatcher' = dispatcher
              /\ Routing' = Routing ]_vars

\* ---------------------------------------------------------------------
\* The pool of a request
\* ---------------------------------------------------------------------

\* The pools that hold request r: in a queue position that waits for
\* admission, or in a chain of an executor call.
Where(r) ==
    {p \in DOMAIN pools :
        \E k \in pools[p].index..(pools[p].end - 1) :
            pools[p].queue[slot(pools[p], k)] = r}
    \cup {c.pool : c \in {x \in chains : x.item = r}}

\* C35: a request stays in the pool that invoke selected for it: a
\* configure call moves no request, and whatever the pool does with the
\* request later (attempts, retries) happens in that pool.  A request made
\* after a configure call goes to the pool that the registry gives for its
\* URL then.
C35_BoundAtInvoke ==
    [][ /\ \A r \in Requests :
              /\ items'[r].pool = items[r].pool
              /\ Where(r)' \subseteq {items[r].pool}
        /\ \A config \in BindRules :
              Configure(config) => \A r \in Requests : Where(r)' = Where(r)
        /\ \A url \in FlowUrls :
              (InvokeUrl(url) /\ lastCall'.promise = "pending") =>
                  \E r \in 1..MaxReq :
                      /\ r = Len(items')
                      /\ items'[r].pool \in HandlerOf(url)'
                      /\ Where(r)' = {lastCall'.pool} ]_vars

\* Two requests to https://h1/a are in progress in two pools: the first in
\* the default pool of its path, the second, made after the rule for the
\* path was registered, in the pool of the rule.
C35_Witness ==
    LET url == Url("h1", <<"/", "a">>)
        key == DefaultKey(url)
    IN  /\ key \in DOMAIN dispatcher.defaultPools
        /\ \E r \in Requests :
              /\ items[r].pool = dispatcher.defaultPools[key]
              /\ Where(r) # {}
        /\ \E i \in 1..Len(configured) :
              /\ lastCall.pool = configured[i].pool
              /\ lastCall.promise = "pending"
              /\ \E r \in Requests :
                    /\ items[r].pool = configured[i].pool
                    /\ Where(r) # {}

\* ---------------------------------------------------------------------
\* A shouldRetry predicate that fails
\* ---------------------------------------------------------------------

\* Chain d is chain c one reaction later, and shouldRetry has thrown (or
\* rejected) in that reaction.
ThrewIn(c, d) ==
    /\ c.stage \in {"then", "catch"}
    /\ d.pool = c.pool /\ d.item = c.item /\ d.attempt = c.attempt
    /\ d.value.kind = "thrown"
    /\ d.value # c.value

\* C36: when shouldRetry throws or rejects in a reaction of a chain, the
\* in-flight counter of the pool has been decremented for that executor
\* call, and the chain goes on to its last reaction, which calls #process:
\* that call admits a waiting request when a slot is free.
C36_ThrowKeepsPoolGoing ==
    [][ \A c \in chains :
          /\ \A d \in chains' \ chains :
                ThrewIn(c, d) =>
                    /\ d.stage \in {"catch", "finally2"}
                    /\ pools'[c.pool].concurrency = Cardinality(Running(c.pool))
                    /\ c \notin Running(c.pool)
          /\ ( /\ Finally2(c)
               /\ c.value.kind = "thrown"
               /\ Waiting(c.pool) > 0
               /\ ~saturated(pools[c.pool])
               /\ ~pools[c.pool].hasTimestamps )
             => /\ Admits(c.pool)
                /\ pools'[c.pool].concurrency = pools[c.pool].concurrency + 1 ]_vars

\* shouldRetry has thrown in .catch while a request waits in a pool with
\* maxConcurrency = 1: no request is in flight, and the last reaction of the
\* chain is about to call #process.
C36_Witness ==
    \E c \in chains :
        /\ c.stage = "finally2"
        /\ c.value.kind = "thrown"
        /\ pools[c.pool].maxConcurrency = 1
        /\ pools[c.pool].concurrency = 0
        /\ Waiting(c.pool) > 0

\* C37: a request for which shouldRetry has thrown or rejected in the last
\* classification of an outcome (that of .catch) is not dropped: it is in
\* the queue again, or one of its callbacks has been called.
C37_NeverDropped ==
    [][ \A c \in chains : \A d \in chains' \ chains :
          (ThrewIn(c, d) /\ d.stage = "finally2") =>
              \/ Slots(c.item)' # {}
              \/ Callbacks(c.item)' > 0 ]_vars

\* ---------------------------------------------------------------------
\* The configuration of a new pool
\* ---------------------------------------------------------------------

\* The value of property f in config, or def when config leaves it out.
Resolved(config, f, def) == IF f \in DOMAIN config THEN config[f] ELSE def

\* The concurrency limit that results from config with the built-in
\* defaults: 0, or 1 when interval is set.
BuiltInConcurrency(config) ==
    Resolved(config, "maxConcurrency",
             IF "interval" \in DOMAIN config THEN 1 ELSE 0)

\* pool has the properties of config, and the built-in default of every
\* property that config leaves out.
FieldsFrom(pool, config) ==
    /\ pool.maxConcurrency = IF BuiltInConcurrency(config) > 0
                             THEN BuiltInConcurrency(config) ELSE Infinity
    /\ pool.interval = Max(0, Resolved(config, "interval", 0))
    /\ pool.maxRetry = Max(0, Resolved(config, "maxRetry", 1))
    /\ pool.capacity = Max(0, Resolved(config, "capacity", 0))
    /\ pool.shouldRetry = Resolved(config, "shouldRetry", NoPredicate)

\* C38: the pool of a rule has the properties that the rule sets and the
\* built-in default of every other (maxConcurrency 0, or 1 when the rule
\* sets interval; interval 0; maxRetry 1; capacity 0; no shouldRetry),
\* whatever the base configuration of the dispatcher; a default pool has
\* the base configuration of the dispatcher.
C38_RuleDefaults ==
    /\ \A i \in 1..Len(configured) :
          FieldsFrom(pools[configured[i].pool], configured[i].config)
    /\ \A key \in DOMAIN dispatcher.defaultPools :
          /\ FieldsFrom(pools[dispatcher.defaultPools[key]], dispatcher.config)
          /\ \E c \in BaseConfigs :
                /\ \A f \in DOMAIN c : dispatcher.config[f] = c[f]
                /\ FieldsFrom(pools[dispatcher.defaultPools[key]], c)

\* A rule that sets no property has a pool with maxRetry = 1 and a request
\* in it, next to a default pool with a request and the maxRetry of the
\* base configuration, which is not 1.
C38_Witness ==
    /\ \E i \in 1..Len(configured) :
          /\ DOMAIN configured[i].config \in {{"match"}, {"scope", "url"}}
          /\ pools[configured[i].pool].maxRetry = 1
          /\ pools[configured[i].pool].concurrency = 1
    /\ \E key \in DOMAIN dispatcher.defaultPools :
          /\ pools[dispatcher.defaultPools[key]].maxRetry # 1
          /\ pools[dispatcher.defaultPools[key]].concurrency = 1

\* ---------------------------------------------------------------------
\* The classification window
\* ---------------------------------------------------------------------

\* The outcome of chain c is being classified: the executor call has
\* settled, and .then or .catch has not finished (shouldRetry may have
\* returned a promise that is pending).
Classifying(c) == c.stage \in {"then", "catch"}

C31_LegacyUnlimited ==
    \A r \in 1..MaxReq :
        (r \in Requests /\ dispatcher.config.maxConcurrency <= 0)
            ~> (r \in Requests /\ items[r].attempts > 0)
====
